---------------------------- MODULE Spec2Model ----------------------------
(***************************************************************************)
(* A state-machine model of the OMX editor's data document (datadoc.py):   *)
(* the 5D pixel array in (W,T,Z,Y,X) order, the crop box, the view index,  *)
(* the per-wavelength alignment parameters, and the operations that read   *)
(* or move them (moveSliceLines, moveCropbox, takeSlice, alignAndCrop).    *)
(*                                                                         *)
(* Vectors that the code indexes from 0 (size, cropMin, cropMax,           *)
(* curViewIndex, rows of alignParams) are functions on 0..4 here, so that  *)
(* size[2] is the Z extent exactly as in the source.                       *)
(***************************************************************************)
EXTENDS Integers, Sequences, FiniteSets, TLC

(* ------------------------------ bounds -------------------------------- *)

\* Largest axis length of the documents the view/crop specifications load.
MaxDim == 2

\* Magnitude of an offset that exceeds every axis extent of the model.
BigOffset == 1000

\* numpy.int32, the dtype of cropMin and cropMax.
Int32Max == 2147483647

Axes == 0 .. 4

VARIABLES
    size,           \* self.size: axis lengths, WTZYX
    imageArray,     \* self.imageArray: pixel values by <<w,t,z,y,x>>
    cropMin,        \* self.cropMin
    cropMax,        \* self.cropMax
    curViewIndex,   \* self.curViewIndex
    alignParams,    \* self.alignParams: wavelength -> (dx, dy, dz, angle, zoom)
    filePath,       \* self.filePath
    mrcBound,       \* whether self.image.Mrc (the source file binding) still exists
    lastCall,       \* the operation called last, and a summary of its argument
    \* --- one alignAndCrop call ---
    pc,             \* "idle", "slices", "loop", "returned" or "raised"
    wavelengths,    \* the wavelengths argument after defaulting
    timepoints,     \* the timepoints argument after defaulting
    savePath,       \* the savePath argument; "" stands for None
    croppedShape,   \* croppedShape, in (T,W,Z,Y,X) order
    newHeader,      \* newHeader, a sequence holding the header once it is built
    outputArray,    \* outputArray of the in-memory path
    outFile,        \* outputFile: "none", "open" or "closed"
    filesOpened,    \* how many times this call has opened an output file
    fileContent,    \* what has been written to outputFile, in order
    volumeSlices,   \* volumeSlices: the Z, Y and X slice objects
    loopPos,        \* positions of the two loops: [ti, wi]
    result,         \* the returned array, a sequence holding it once returned
    error,          \* the exception that ended the call, or "none"
    \* --- the last query, when it was a takeSlice call ---
    sliceAxes,      \* its axes argument: fixed axis -> coordinate
    sliceResult,    \* the array it returned, a sequence holding it
    \* --- the file the document is created from ---
    image,          \* self.image: header, axis order string and raw array
    created,        \* "no", "yes", or the exception __init__ raised
    dtype,          \* self.dtype: the pixel type of imageArray
    averages,       \* self.averages: wavelength -> mean pixel value
    \* --- the last query, when it was of another kind ---
    probe,          \* the coord argument of a getValuesAt call
    probeResult,    \* what it returned, a sequence holding the pair
    transformFlag,  \* what a hasTransformation call returned
    lookups,        \* how many map_coordinates calls the last query made
    queryError,     \* the exception that ended the last query, or "none"
    \* --- one run of the batch dialog's OnStart ---
    files,          \* files: the files chosen, each as the loader would open it
    fileIndex,      \* i, the position of the loop over files
    batchPc,        \* "off", "open", "init", "edit", "export", "done" or "aborted"
    reference,      \* alignParams, cropMin, cropMax and size of the selected document
    progress,       \* the messages passed to progress.Update, in order
    \* --- the extended header ---
    imgSequence,    \* self.imageHeader.ImgSequence
    headerIndex,    \* what the last getExtendedHeaderIndex call returned
    \* --- one run of the stripe filter script ---
    fileSystem,     \* the files on disk: path -> planes and pixel type
    stripePc,       \* "off", "loop", "done" or "exited"
    inputPath,      \* input_path, sys.argv[1]
    outputPath,     \* output_path
    stripePlane,    \* p, the position of the loop over planes
    filteredPlanes, \* the planes filter_stripes was called for, in order
    stripeCall      \* the last filter_stripes call: arguments, grids, result

docVars == <<size, imageArray, cropMin, cropMax, curViewIndex, alignParams,
             filePath, mrcBound>>
callVars == <<pc, wavelengths, timepoints, savePath, croppedShape, newHeader,
              outputArray, outFile, filesOpened, fileContent, volumeSlices,
              loopPos, result, error>>
vars == <<size, imageArray, cropMin, cropMax, curViewIndex, alignParams,
          filePath, mrcBound, lastCall, pc, wavelengths, timepoints, savePath,
          croppedShape, newHeader, outputArray, outFile, filesOpened,
          fileContent, volumeSlices, loopPos, result, error, sliceAxes,
          sliceResult, image, created, dtype, averages, probe, probeResult,
          transformFlag, lookups, queryError, files, fileIndex, batchPc,
          reference, progress, imgSequence, headerIndex, fileSystem,
          stripePc, inputPath, outputPath, stripePlane, filteredPlanes,
          stripeCall>>
sliceVars == <<sliceAxes, sliceResult>>
loadVars == <<image, created, dtype, averages>>
queryVars == <<probe, probeResult, transformFlag, lookups, queryError>>
batchVars == <<files, fileIndex, batchPc, reference, progress>>
headerVars == <<imgSequence, headerIndex>>
stripeVars == <<fileSystem, stripePc, inputPath, outputPath, stripePlane,
                filteredPlanes, stripeCall>>

(* ------------------------------ helpers ------------------------------- *)

Min2(a, b) == IF a < b THEN a ELSE b
Max2(a, b) == IF a > b THEN a ELSE b
Abs(a) == IF a < 0 THEN -a ELSE a

\* a + b in a 32-bit two's-complement integer (numpy int32 += wraps).
\* Both operands are int32 values; the sum is formed without leaving the range.
AddInt32(a, b) ==
    IF b > 0 /\ a > Int32Max - b
    THEN (a - Int32Max - 1) + (b - Int32Max - 1)
    ELSE IF b < 0 /\ a < (-Int32Max - 1) - b
         THEN (a + Int32Max + 1) + (b + Int32Max + 1)
         ELSE a + b

\* The index tuples of an array of the given WTZYX size.
Coords(sz) ==
    { <<w, t, z, y, x>> :
        w \in 0 .. sz[0] - 1, t \in 0 .. sz[1] - 1, z \in 0 .. sz[2] - 1,
        y \in 0 .. sz[3] - 1, x \in 0 .. sz[4] - 1 }

\* The pixel data of the loaded file: every voxel carries a value of its own, so
\* that two different voxels are never mistaken for one another.
LoadedPixels(sz) ==
    [ c \in Coords(sz) |->
        1 + c[5] + sz[4] * (c[4] + sz[3] * (c[3] + sz[2] * (c[2] + sz[1] * c[1]))) ]

\* A summary of an offset vector for lastCall: does some component exceed the
\* full extent of its axis?
ExceedsExtent(offset) == \E i \in Axes : Abs(offset[i]) > size[i]

(* ------------------------- document creation -------------------------- *)

\* The identity row of alignParams: dx, dy, dz, angle = 0 and zoom = 1.
IdentityRow == [i \in Axes |-> IF i = 4 THEN 1 ELSE 0]

SourcePath == "source.mrc"
OtherPath == "other.mrc"
NoPath == ""

\* The pixel types of the model's files: 16-bit unsigned integer and 32-bit
\* float.
UInt16Type == "uint16"
Float32Type == "float32"
PixelTypes == {UInt16Type, Float32Type}

\* The letters of dimOrder, by canonical axis.
DimOrder == [i \in Axes |-> <<"w", "t", "z", "y", "x">>[i + 1]]

\* The file of a document of size sz as the loader hands it over: the header
\* counts, the raw array in w, t, z, y, x storage order with the wavelength and
\* time axes left off when their length is 1, and the pixel type.
StoredAxes(sz) == SelectSeq(<<0, 1, 2, 3, 4>>, LAMBDA i : i > 1 \/ sz[i] > 1)

CanonicalFile(sz, ty) ==
    LET stored == StoredAxes(sz)
        shape == [k \in 1 .. Len(stored) |-> sz[stored[k]]]
        indexes == {j \in [1 .. Len(stored) -> 0 .. MaxDim + 1] :
                       \A k \in 1 .. Len(stored) : j[k] < shape[k]}
        position(i) == CHOOSE k \in 1 .. Len(stored) : stored[k] = i
        canonical(j) == [i \in Axes |-> IF sz[i] = 1 /\ i < 2 THEN 0
                                                              ELSE j[position(i)]]
    IN [ hdr      |-> [NumWaves |-> sz[0], NumTimes |-> sz[1],
                       Num |-> <<sz[4], sz[3], sz[2] * sz[0] * sz[1]>>],
         sequence |-> [k \in 1 .. Len(stored) |-> DimOrder[stored[k]]],
         shape    |-> shape,
         data     |-> [j \in indexes |->
                         LoadedPixels(sz)[<<canonical(j)[0], canonical(j)[1],
                                            canonical(j)[2], canonical(j)[3],
                                            canonical(j)[4]>>]],
         dtype    |-> ty ]

\* Rational numbers in lowest terms, for the means of integer pixel values.
RECURSIVE GCD(_, _)
GCD(a, b) == IF b = 0 THEN a ELSE GCD(b, a % b)

Ratio(n, d) == [num |-> n \div GCD(n, d), den |-> d \div GCD(n, d)]

RECURSIVE SumOver(_, _)
SumOver(f, D) ==
    IF D = {} THEN 0
    ELSE LET c == CHOOSE c \in D : TRUE IN f[c] + SumOver(f, D \ {c})

\* self.imageArray[wavelength].mean() of an array of non-negative pixels.
WavelengthMean(array, wavelength) ==
    LET cells == {c \in DOMAIN array : c[1] = wavelength}
    IN Ratio(SumOver(array, cells), Cardinality(cells))

\* DataDoc.__init__ for a file of the given pixel type whose header gives the
\* axis lengths sz and whose raw array is in canonical storage order.
NewDataDocOfType(sz, ty) ==
    /\ image = CanonicalFile(sz, ty)
    /\ created = "yes"
    /\ size = sz
    /\ imageArray = LoadedPixels(sz)
    /\ dtype = ty
    /\ averages = [w \in 0 .. sz[0] - 1 |-> WavelengthMean(LoadedPixels(sz), w)]
    /\ cropMin = [i \in Axes |-> 0]
    /\ cropMax = [i \in Axes |-> sz[i]]
    /\ curViewIndex = [i \in Axes |-> IF i = 1 THEN 0 ELSE sz[i] \div 2]
    /\ alignParams = [w \in 0 .. sz[0] - 1 |-> IdentityRow]
    /\ filePath = SourcePath
    /\ mrcBound = TRUE

\* DataDoc.__init__ for a 32-bit float file.
NewDataDoc(sz) == NewDataDocOfType(sz, Float32Type)

NoCall == [op |-> "none", over |-> FALSE]

\* newHeader.ImgSequence = 2, the z/w/t ordering.
ImgSequenceZWT == 2

\* No call has been made yet, and no script has run.
CallsIdle ==
    /\ lastCall = NoCall
    /\ pc = "idle"
    /\ wavelengths = <<>>
    /\ timepoints = <<>>
    /\ savePath = NoPath
    /\ croppedShape = <<>>
    /\ newHeader = <<>>
    /\ outputArray = <<>>
    /\ outFile = "none"
    /\ filesOpened = 0
    /\ fileContent = <<>>
    /\ volumeSlices = <<>>
    /\ loopPos = [ti |-> 0, wi |-> 0]
    /\ result = <<>>
    /\ error = "none"
    /\ sliceAxes = <<>>
    /\ sliceResult = <<>>
    /\ probe = <<>>
    /\ probeResult = <<>>
    /\ transformFlag = <<>>
    /\ lookups = 0
    /\ queryError = "none"
    /\ files = <<>>
    /\ fileIndex = 0
    /\ batchPc = "off"
    /\ reference = <<>>
    /\ progress = <<>>
    /\ headerIndex = <<>>
    /\ stripePc = "off"
    /\ inputPath = <<>>
    /\ outputPath = <<>>
    /\ stripePlane = 0
    /\ filteredPlanes = <<>>
    /\ stripeCall = <<>>

\* No alignAndCrop call has been made yet, on a document whose file is stored
\* in z/w/t order; no other file is at hand.
NoCallState ==
    /\ CallsIdle
    /\ imgSequence = ImgSequenceZWT
    /\ fileSystem = <<>>

\* No call is in progress: the document's methods are called one at a time.
BetweenCalls == pc = "idle"

(* ------------------------ view index, crop box ------------------------- *)

\* The guard of moveSliceLines without its upper bound.
SliceLineTarget_NoUpperCheck(cur, delta, extent) ==
    IF cur + delta >= 0 THEN cur + delta ELSE cur

\* One axis of moveSliceLines: the target value is taken only when in-bounds.
SliceLineTarget(cur, delta, extent) ==
    IF cur + delta >= 0 /\ cur + delta < extent THEN cur + delta ELSE cur

moveSliceLines(offset) ==
    /\ BetweenCalls
    /\ curViewIndex' = [i \in Axes |->
                           SliceLineTarget(curViewIndex[i], offset[i], size[i])]
    /\ lastCall' = [op |-> "moveSliceLines", over |-> ExceedsExtent(offset)]
    /\ UNCHANGED <<size, imageArray, cropMin, cropMax, alignParams, filePath,
                   mrcBound>>
    /\ UNCHANGED callVars
    /\ UNCHANGED sliceVars
    /\ UNCHANGED loadVars
    /\ UNCHANGED batchVars
    /\ UNCHANGED headerVars
    /\ UNCHANGED stripeVars
    /\ UNCHANGED queryVars

\* max(0, min(self.size[i], val))
ClampToSize(val, extent) == Max2(0, Min2(extent, val))

moveCropbox(offset, isMin) ==
    /\ BetweenCalls
    /\ IF isMin
       THEN /\ cropMin' = [i \in Axes |->
                              ClampToSize(AddInt32(cropMin[i], offset[i]), size[i])]
            /\ UNCHANGED cropMax
       ELSE /\ cropMax' = [i \in Axes |->
                              ClampToSize(AddInt32(cropMax[i], offset[i]), size[i])]
            /\ UNCHANGED cropMin
    /\ lastCall' = [op |-> "moveCropbox", over |-> ExceedsExtent(offset)]
    /\ UNCHANGED <<size, imageArray, curViewIndex, alignParams, filePath, mrcBound>>
    /\ UNCHANGED callVars
    /\ UNCHANGED sliceVars
    /\ UNCHANGED loadVars
    /\ UNCHANGED batchVars
    /\ UNCHANGED headerVars
    /\ UNCHANGED stripeVars
    /\ UNCHANGED queryVars

(* ------------------- alignAndCrop: pure computations ------------------- *)

\* The MRC pixel-type number of 32-bit float, Mrc.dtype2MrcMode(numpy.float32).
MrcModeFloat32 == 2


\* 2^24: up to here every integer is a float32 value.
Float32ExactMax == 16777216

\* range(a, b)
Range(a, b) == [k \in 1 .. Max2(0, b - a) |-> a + k - 1]

\* An index i into an axis of length n that Python accepts (negative ones count
\* from the end), and the position it names.
ValidIndex(i, n) == -n <= i /\ i < n
NormIndex(i, n) == IF i < 0 THEN i + n ELSE i

\* slice(lo, hi) applied to an axis of length n: slice.indices(n) with step 1.
SliceBound(b, n) == IF b < 0 THEN Max2(b + n, 0) ELSE Min2(b, n)
SliceStart(sl, n) == SliceBound(sl.lo, n)
SliceLen(sl, n) == Max2(0, SliceBound(sl.hi, n) - SliceBound(sl.lo, n))

\* astype(numpy.float32) of an integer pixel value: exact up to 2^24, rounded to
\* the nearest even multiple of the spacing 2 up to 2^25.
Float32Of(v) ==
    IF Abs(v) <= Float32ExactMax THEN v
    ELSE IF v % 2 = 0 THEN v
    ELSE IF (v + 1) % 4 = 0 THEN v + 1 ELSE v - 1

\* wavelengths = range(self.size[0]) when none is given.
DefaultWavelengths(wl) == IF wl = <<>> THEN Range(0, size[0]) ELSE wl

\* timepoints = range(self.cropMin[1], self.cropMax[1]) when none is given.
DefaultTimepoints(tp) == IF tp = <<>> THEN Range(cropMin[1], cropMax[1]) ELSE tp

\* croppedShape with the first two entries left as built: (W,T,Z,Y,X).
CroppedShape_NoSwap(nWaves, cmin, cmax) ==
    [i \in Axes |-> IF i = 0 THEN nWaves ELSE cmax[i] - cmin[i]]

\* croppedShape: [len(wavelengths)] + (max - min per axis 1..4), then the first
\* two entries swapped to time/wavelength/z/y/x.
CroppedShape(nWaves, cmin, cmax) ==
    [i \in Axes |->
        IF i = 0 THEN cmax[1] - cmin[1]
        ELSE IF i = 1 THEN nWaves
        ELSE cmax[i] - cmin[i]]

\* The fields alignAndCrop sets in newHeader.
NewHeader(shape, nWaves) ==
    [ Num         |-> [i \in 0 .. 2 |->
                         IF i = 0 THEN shape[4]
                         ELSE IF i = 1 THEN shape[3]
                         ELSE shape[2] * shape[1] * shape[0]],
      NumTimes    |-> size[1],
      NumWaves    |-> nWaves,
      next        |-> 0,
      ImgSequence |-> ImgSequenceZWT,
      PixelType   |-> MrcModeFloat32 ]

\* numpy.empty(croppedShape): every (timepoint, wavelength) cell uninitialised,
\* written <<>> until a volume is stored in it.
EmptyArray(shape) ==
    [ shape |-> shape,
      cells |-> [c \in (0 .. shape[0] - 1) \X (0 .. shape[1] - 1) |-> <<>>] ]

\* volumeSlices: slice(min, max) for the Z, Y and X axes.
VolumeSlices(cmin, cmax) == [a \in 2 .. 4 |-> [lo |-> cmin[a], hi |-> cmax[a]]]

ZYX(dims) == (0 .. dims[1] - 1) \X (0 .. dims[2] - 1) \X (0 .. dims[3] - 1)

\* self.imageArray[w][t]: the (Z,Y,X) volume of one wavelength and timepoint.
\* src names the wavelength and timepoint it was taken from, xf holds the
\* arguments of the transform applied to it, if one was, and params is the
\* alignParams row read for it.
SourceVolume(w, t) ==
    [ dims   |-> <<size[2], size[3], size[4]>>,
      pix    |-> [c \in ZYX(<<size[2], size[3], size[4]>>) |->
                    imageArray[<<w, t, c[1], c[2], c[3]>>]],
      src    |-> <<w, t>>,
      xf     |-> <<>>,
      params |-> IdentityRow ]

\* angle * numpy.pi / 180.0, kept as the exact multiple of pi it is.
Radians(angle) == [piTimes |-> angle, over |-> 180]

\* The dz of a sample with the hack for 2D files left out.
SuppressDz_Never(dz, numZ) == dz

\* if dz and self.size[2] == 1: dz = 0
SuppressDz(dz, numZ) == IF dz # 0 /\ numZ = 1 THEN 0 ELSE dz

\* if dx or dy or dz or angle or zoom != 1
NeedsTransform(dx, dy, dz, angle, zoom) ==
    dx # 0 \/ dy # 0 \/ dz # 0 \/ angle # 0 \/ zoom # 1

\* util.transformArray(volume, dx, dy, dz, angle, zoom): the volume resampled
\* under the transform, of the same shape. Its pixels are kept as the pair of
\* the source grid and the arguments of the transform.
TransformArray(volume, dx, dy, dz, angle, zoom) ==
    [volume EXCEPT !.xf = <<[dx |-> dx, dy |-> dy, dz |-> dz,
                             angle |-> angle, zoom |-> zoom]>>]

\* volume[volumeSlices]
CropVolume(volume, slices) ==
    LET dims == << SliceLen(slices[2], volume.dims[1]),
                   SliceLen(slices[3], volume.dims[2]),
                   SliceLen(slices[4], volume.dims[3]) >>
    IN [volume EXCEPT
          !.dims = dims,
          !.pix = [c \in ZYX(dims) |->
                     volume.pix[<< c[1] + SliceStart(slices[2], volume.dims[1]),
                                   c[2] + SliceStart(slices[3], volume.dims[2]),
                                   c[3] + SliceStart(slices[4], volume.dims[3]) >>]]]

\* .astype(numpy.float32)
AsTypeFloat32(volume) ==
    [volume EXCEPT !.pix = [c \in DOMAIN volume.pix |-> Float32Of(volume.pix[c])]]

\* numpy's rule for outputArray[t, w] = volume: an axis of the volume must have
\* the cell's length, or length 1 (then it is repeated).
Broadcastable(dims, shape) ==
    \A a \in 1 .. 3 : dims[a] = shape[a + 1] \/ dims[a] = 1

Broadcast(volume, shape) ==
    LET dims == <<shape[2], shape[3], shape[4]>>
    IN [volume EXCEPT
          !.dims = dims,
          !.pix = [c \in ZYX(dims) |->
                     volume.pix[<< IF volume.dims[1] = 1 THEN 0 ELSE c[1],
                                   IF volume.dims[2] = 1 THEN 0 ELSE c[2],
                                   IF volume.dims[3] = 1 THEN 0 ELSE c[3] >>]]]

\* One Z-slice of a volume, as written to the file, with the loop positions
\* (timepoint position, wavelength position, z) it was written at.
ZSlice(volume, z, pos) ==
    [ kind   |-> "slice",
      pos    |-> <<pos.ti, pos.wi, z>>,
      src    |-> volume.src,
      params |-> volume.params,
      xf     |-> volume.xf,
      dims   |-> <<volume.dims[2], volume.dims[3]>>,
      pix    |-> [c \in (0 .. volume.dims[2] - 1) \X (0 .. volume.dims[3] - 1) |->
                    volume.pix[<<z, c[1], c[2]>>]] ]

\* outputArray.transpose with the axes left as they are.
TransposeTW_Omitted(array) == array

\* outputArray.transpose([1, 0, 2, 3, 4])
TransposeTW(array) ==
    [ shape |-> [i \in Axes |->
                   IF i = 0 THEN array.shape[1]
                   ELSE IF i = 1 THEN array.shape[0]
                   ELSE array.shape[i]],
      cells |-> [c \in (0 .. array.shape[1] - 1) \X (0 .. array.shape[0] - 1) |->
                   array.cells[<<c[2], c[1]>>]] ]

\* The two nested loops with the wavelength loop outermost.
NextLoopPos_WavelengthOuter(pos, nTimes, nWaves) ==
    IF pos.ti + 1 < nTimes
    THEN [ti |-> pos.ti + 1, wi |-> pos.wi]
    ELSE IF pos.wi + 1 < nWaves
         THEN [ti |-> 0, wi |-> pos.wi + 1]
         ELSE [ti |-> nTimes, wi |-> 0]

\* for timepoint in timepoints: for wavelength in range(len(wavelengths)):
\* the position after the current one; ti = nTimes when both loops are over.
NextLoopPos(pos, nTimes, nWaves) ==
    IF pos.wi + 1 < nWaves
    THEN [ti |-> pos.ti, wi |-> pos.wi + 1]
    ELSE [ti |-> pos.ti + 1, wi |-> 0]

\* getExtendedHeaderIndex with every ImgSequence taken as 2, zwt.
GetExtendedHeaderIndex_AlwaysZWT(sequence, numWavelengths, numTimepoints, numZ, timepoint, wavelength, zIndex) ==
    timepoint * numWavelengths * numZ + wavelength * numZ + zIndex

\* getExtendedHeaderIndex for a file of the given ImgSequence and extents:
\* 0 is ztw, 1 is wzt, anything else is taken as 2, zwt.
GetExtendedHeaderIndex(sequence, numWavelengths, numTimepoints, numZ, timepoint, wavelength, zIndex) ==
    IF sequence = 0
    THEN wavelength * numTimepoints * numZ + timepoint * numZ + zIndex
    ELSE IF sequence = 1
    THEN timepoint * numZ * numWavelengths + zIndex * numWavelengths + wavelength
    ELSE timepoint * numWavelengths * numZ + wavelength * numZ + zIndex

(* ----------------------- alignAndCrop: the steps ----------------------- *)

\* An exception leaves the call: nothing after the raising line runs.
Raise(name) ==
    /\ pc' = "raised"
    /\ error' = name

\* Lines 320-354: the arguments' defaults, croppedShape, newHeader, and either
\* the pre-sized outputArray or the output file with its header written.
\* headerWritten is whether the file system accepts the header's write.
alignAndCropBegin(wl, tp, sp, headerWritten) ==
    /\ BetweenCalls
    /\ LET wls == DefaultWavelengths(wl)
           tps == DefaultTimepoints(tp)
           shape == CroppedShape(Len(wls), cropMin, cropMax)
           hdr == NewHeader(shape, Len(wls))
       IN /\ wavelengths' = wls
          /\ timepoints' = tps
          /\ savePath' = sp
          /\ croppedShape' = shape
          /\ newHeader' = <<hdr>>
          /\ volumeSlices' = <<>>
          /\ loopPos' = [ti |-> 0, wi |-> 0]
          /\ result' = <<>>
          /\ lastCall' = [op |-> "alignAndCrop", over |-> FALSE]
          /\ IF sp = NoPath
             THEN /\ UNCHANGED mrcBound
                  /\ outFile' = "none"
                  /\ filesOpened' = 0
                  /\ fileContent' = <<>>
                  /\ IF \E i \in Axes : shape[i] < 0
                     THEN \* numpy.empty refuses a negative dimension
                          /\ outputArray' = <<>>
                          /\ Raise("ValueError")
                     ELSE /\ outputArray' = EmptyArray(shape)
                          /\ pc' = "slices"
                          /\ error' = "none"
             ELSE /\ outputArray' = <<>>
                  /\ IF filePath = sp /\ ~mrcBound
                     THEN \* del self.image.Mrc: the attribute is already gone
                          /\ UNCHANGED mrcBound
                          /\ outFile' = "none"
                          /\ filesOpened' = 0
                          /\ fileContent' = <<>>
                          /\ Raise("AttributeError")
                     ELSE /\ mrcBound' = IF filePath = sp THEN FALSE ELSE mrcBound
                          /\ outFile' = "open"
                          /\ filesOpened' = 1
                          /\ IF headerWritten
                             THEN /\ fileContent' = <<[kind |-> "header", hdr |-> hdr]>>
                                  /\ pc' = "slices"
                                  /\ error' = "none"
                             ELSE /\ fileContent' = <<>>
                                  /\ Raise("IOError")
    /\ UNCHANGED <<size, imageArray, cropMin, cropMax, curViewIndex, alignParams,
                   filePath>>
    /\ UNCHANGED sliceVars
    /\ UNCHANGED loadVars
    /\ UNCHANGED batchVars
    /\ UNCHANGED headerVars
    /\ UNCHANGED stripeVars
    /\ UNCHANGED queryVars

\* Lines 356-360: the crop slices are read off cropMin and cropMax.
alignAndCropSlices ==
    /\ pc = "slices"
    /\ volumeSlices' = VolumeSlices(cropMin, cropMax)
    /\ pc' = "loop"
    /\ UNCHANGED docVars
    /\ UNCHANGED <<lastCall, wavelengths, timepoints, savePath, croppedShape,
                   newHeader, outputArray, outFile, filesOpened, fileContent,
                   loopPos, result, error>>
    /\ UNCHANGED sliceVars
    /\ UNCHANGED loadVars
    /\ UNCHANGED batchVars
    /\ UNCHANGED headerVars
    /\ UNCHANGED stripeVars
    /\ UNCHANGED queryVars

\* Lines 362-395: one pass of the loop body, for the (timepoint, wavelength)
\* pair at loopPos. numWritten is how many of the volume's Z-slices the file
\* system accepts before a write fails (all of them: no failure).
alignAndCropVolume(numWritten) ==
    /\ pc = "loop"
    /\ loopPos.ti < Len(timepoints)
    /\ LET timepoint == timepoints[loopPos.ti + 1]
           wavelength == loopPos.wi
           source == wavelengths[wavelength + 1]
           next == NextLoopPos(loopPos, Len(timepoints), Len(wavelengths))
       IN IF \/ ~ValidIndex(source, size[0])
             \/ ~ValidIndex(timepoint, size[1])
             \/ ~ValidIndex(wavelength, size[0])
          THEN /\ numWritten = 0
               /\ Raise("IndexError")
               /\ UNCHANGED <<outputArray, fileContent, loopPos>>
          ELSE LET row == alignParams[NormIndex(wavelength, size[0])]
                   volume == [SourceVolume(NormIndex(source, size[0]),
                                           NormIndex(timepoint, size[1]))
                                EXCEPT !.params = row]
                   dz == SuppressDz(row[2], size[2])
                   moved == IF NeedsTransform(row[0], row[1], dz, row[3], row[4])
                            THEN TransformArray(volume, row[0], row[1], dz,
                                                Radians(row[3]), row[4])
                            ELSE volume
                   cropped == AsTypeFloat32(CropVolume(moved, volumeSlices))
               IN IF savePath = NoPath
                  THEN /\ numWritten = 0
                       /\ UNCHANGED fileContent
                       /\ IF \/ ~ValidIndex(timepoint, croppedShape[0])
                             \/ ~ValidIndex(wavelength, croppedShape[1])
                          THEN /\ Raise("IndexError")
                               /\ UNCHANGED <<outputArray, loopPos>>
                          ELSE IF ~Broadcastable(cropped.dims, croppedShape)
                          THEN /\ Raise("ValueError")
                               /\ UNCHANGED <<outputArray, loopPos>>
                          ELSE /\ outputArray' =
                                    [outputArray EXCEPT
                                       !.cells[<<NormIndex(timepoint, croppedShape[0]),
                                                 wavelength>>] =
                                           <<Broadcast(cropped, croppedShape)>>]
                               /\ loopPos' = next
                               /\ UNCHANGED <<pc, error>>
                  ELSE /\ numWritten \in 0 .. cropped.dims[1]
                       /\ UNCHANGED outputArray
                       /\ fileContent' = fileContent \o
                              [z \in 1 .. numWritten |->
                                  ZSlice(cropped, z - 1, loopPos)]
                       /\ IF numWritten < cropped.dims[1]
                          THEN /\ Raise("IOError")
                               /\ UNCHANGED loopPos
                          ELSE /\ loopPos' = next
                               /\ UNCHANGED <<pc, error>>
    /\ UNCHANGED docVars
    /\ UNCHANGED <<lastCall, wavelengths, timepoints, savePath, croppedShape,
                   newHeader, outFile, filesOpened, volumeSlices, result>>
    /\ UNCHANGED sliceVars
    /\ UNCHANGED loadVars
    /\ UNCHANGED batchVars
    /\ UNCHANGED headerVars
    /\ UNCHANGED stripeVars
    /\ UNCHANGED queryVars

\* Lines 397-401: the loops are over; the array is returned or the file closed.
alignAndCropEnd ==
    /\ pc = "loop"
    /\ loopPos.ti >= Len(timepoints)
    /\ IF savePath = NoPath
       THEN /\ result' = <<TransposeTW(outputArray)>>
            /\ UNCHANGED outFile
       ELSE /\ outFile' = "closed"
            /\ UNCHANGED result
    /\ pc' = "returned"
    /\ UNCHANGED docVars
    /\ UNCHANGED <<lastCall, wavelengths, timepoints, savePath, croppedShape,
                   newHeader, outputArray, filesOpened, fileContent, volumeSlices,
                   loopPos, error>>
    /\ UNCHANGED sliceVars
    /\ UNCHANGED loadVars
    /\ UNCHANGED batchVars
    /\ UNCHANGED headerVars
    /\ UNCHANGED stripeVars
    /\ UNCHANGED queryVars

\* The call is left, by return or by the exception: its locals are gone, and
\* the caller goes on with the document.
alignAndCropExit ==
    /\ pc \in {"returned", "raised"}
    /\ pc' = "idle"
    /\ wavelengths' = <<>>
    /\ timepoints' = <<>>
    /\ savePath' = NoPath
    /\ croppedShape' = <<>>
    /\ newHeader' = <<>>
    /\ outputArray' = <<>>
    /\ outFile' = "none"
    /\ filesOpened' = 0
    /\ fileContent' = <<>>
    /\ volumeSlices' = <<>>
    /\ loopPos' = [ti |-> 0, wi |-> 0]
    /\ result' = <<>>
    /\ error' = "none"
    /\ UNCHANGED docVars
    /\ UNCHANGED lastCall
    /\ UNCHANGED sliceVars
    /\ UNCHANGED loadVars
    /\ UNCHANGED batchVars
    /\ UNCHANGED headerVars
    /\ UNCHANGED stripeVars
    /\ UNCHANGED queryVars

(* ------------------------------ takeSlice ------------------------------ *)

FullSlice == [kind |-> "slice", at |-> 0]
EllipsisItem == [kind |-> "ellipsis", at |-> 0]
IntItem(v) == [kind |-> "int", at |-> v]

\* The index list with the loop running over axes 0..3 instead of 1..4.
PlainSliceItems_AxisOffByOne(axes) ==
    <<EllipsisItem>> \o
    [k \in 1 .. 4 |-> IF (k - 1) \in DOMAIN axes THEN IntItem(axes[k - 1])
                      ELSE EllipsisItem]

\* slices = [Ellipsis], then for each of the axes 1..4 the fixed coordinate
\* or another Ellipsis.
PlainSliceItems(axes) ==
    <<EllipsisItem>> \o
    [axis \in 1 .. 4 |-> IF axis \in DOMAIN axes THEN IntItem(axes[axis])
                         ELSE EllipsisItem]

\* numpy's reading of an index list on an array of ndim axes: the first
\* Ellipsis stands for as many full slices as are needed to reach ndim items,
\* every later one for a single full slice.
ExpandIndex(items, ndim) ==
    LET first == CHOOSE k \in 1 .. Len(items) :
                    /\ items[k].kind = "ellipsis"
                    /\ \A j \in 1 .. k - 1 : items[j].kind # "ellipsis"
        fill == ndim - (Len(items) - 1)
        plain(item) == IF item.kind = "ellipsis" THEN FullSlice ELSE item
    IN [k \in 1 .. first - 1 |-> items[k]]
       \o [k \in 1 .. fill |-> FullSlice]
       \o [k \in 1 .. Len(items) - first |-> plain(items[first + k])]

\* The index tuples of an array of the given shape.
IndexTuples(shape) ==
    {r \in [1 .. Len(shape) -> 0 .. MaxDim + 1] : \A k \in 1 .. Len(shape) : r[k] < shape[k]}

\* self.imageArray[index]: the axes indexed by an integer are dropped, the
\* sliced ones kept in order.
IndexImageArray(index) ==
    LET kept == {d \in 1 .. 5 : index[d].kind = "slice"}
        rank(d) == Cardinality({e \in kept : e <= d})
        shape == [k \in 1 .. Cardinality(kept) |->
                    size[(CHOOSE d \in kept : rank(d) = k) - 1]]
    IN [ shape |-> shape,
         data  |-> [r \in IndexTuples(shape) |->
                      imageArray[[d \in 1 .. 5 |->
                          IF index[d].kind = "slice" THEN r[rank(d)]
                          ELSE NormIndex(index[d].at, size[d - 1])]]] ]

\* Whether every integer of an expanded index is inside its axis; numpy raises
\* IndexError otherwise.
IndexInBounds(index) ==
    \A d \in 1 .. 5 : index[d].kind = "int" => ValidIndex(index[d].at, size[d - 1])

\* takeSlice(axes, shouldTransform = False): an ordinary slice of imageArray.
\* sliceResult stays empty when the indexing raises.
takeSlicePlain(axes) ==
    /\ BetweenCalls
    /\ sliceAxes' = axes
    /\ LET index == ExpandIndex(PlainSliceItems(axes), 5)
       IN sliceResult' = IF IndexInBounds(index)
                         THEN <<IndexImageArray(index)>>
                         ELSE <<>>
    /\ lastCall' = [op |-> "takeSlice", over |-> FALSE]
    /\ UNCHANGED docVars
    /\ UNCHANGED callVars
    /\ UNCHANGED loadVars
    /\ UNCHANGED batchVars
    /\ UNCHANGED headerVars
    /\ UNCHANGED stripeVars
    /\ UNCHANGED queryVars

(* ---------------- edits made by the dialogs' controllers --------------- *)

\* doc.alignParams[j] = row
setAlignParams(j, row) ==
    /\ BetweenCalls
    /\ j \in DOMAIN alignParams
    /\ alignParams' = [alignParams EXCEPT ![j] = row]
    /\ lastCall' = [op |-> "setAlignParams", over |-> FALSE]
    /\ UNCHANGED <<size, imageArray, cropMin, cropMax, curViewIndex, filePath,
                   mrcBound>>
    /\ UNCHANGED callVars
    /\ UNCHANGED sliceVars
    /\ UNCHANGED loadVars
    /\ UNCHANGED batchVars
    /\ UNCHANGED headerVars
    /\ UNCHANGED stripeVars
    /\ UNCHANGED queryVars

\* doc.cropMin = newBoxMin; doc.cropMax = newBoxMax
assignCropbox(newBoxMin, newBoxMax) ==
    /\ BetweenCalls
    /\ cropMin' = newBoxMin
    /\ cropMax' = newBoxMax
    /\ lastCall' = [op |-> "assignCropbox", over |-> FALSE]
    /\ UNCHANGED <<size, imageArray, curViewIndex, alignParams, filePath, mrcBound>>
    /\ UNCHANGED callVars
    /\ UNCHANGED sliceVars
    /\ UNCHANGED loadVars
    /\ UNCHANGED batchVars
    /\ UNCHANGED headerVars
    /\ UNCHANGED stripeVars
    /\ UNCHANGED queryVars

(* ------------------- inputs of the view specification ------------------ *)

ViewSizes == [Axes -> 1 .. MaxDim]

OffsetValues == {-BigOffset, -1, 1, BigOffset}

\* Offset vectors: none, one axis moved, or every axis moved alike.
Offsets(values) ==
    {[i \in Axes |-> 0]}
    \cup {[i \in Axes |-> IF i = a THEN d ELSE 0] : a \in Axes, d \in values}
    \cup {[i \in Axes |-> d] : d \in values}

InitView ==
    /\ \E sz \in ViewSizes : NewDataDoc(sz)
    /\ NoCallState

NextView == \E offset \in Offsets(OffsetValues) : moveSliceLines(offset)

SpecView == InitView /\ [][NextView]_vars

(* ------------------- inputs of the crop specification ------------------ *)

\* Documents of one wavelength and one timepoint with a square XY plane.
CropSizes == {sz \in [Axes -> 1 .. MaxDim] : sz[0] = 1 /\ sz[1] = 1 /\ sz[3] = sz[4]}

CropOffsetValues == {-Int32Max, -BigOffset, -1, 1, BigOffset, Int32Max}

InitCrop ==
    /\ \E sz \in CropSizes : NewDataDoc(sz)
    /\ NoCallState

NextCrop ==
    \E offset \in Offsets(CropOffsetValues), isMin \in BOOLEAN :
        moveCropbox(offset, isMin)

SpecCrop == InitCrop /\ [][NextCrop]_vars

(* ------------------ inputs of the export specification ----------------- *)

\* Documents whose five axes have the same length, 1 or MaxDim.
ExportSizes == {[i \in Axes |-> n] : n \in {1, MaxDim}}

\* The elements of a set of integers in ascending order.
Ascending(S) ==
    [k \in 1 .. Cardinality(S) |->
        CHOOSE x \in S : Cardinality({y \in S : y < x}) = k - 1]

\* The selections a caller passes for an axis of length n: none (the default),
\* a single index, or every index in ascending order.
Selections(n) ==
    {<<>>} \cup {<<i>> : i \in 0 .. n - 1} \cup {Ascending(0 .. n - 1)}

SavePaths == {NoPath, SourcePath, OtherPath}

\* The crop box moved by one step on the time and Z axes, or by one voxel on
\* the Y and X axes.
ExportCropOffsets ==
    {[i \in Axes |-> IF i \in {1, 2} THEN d ELSE 0] : d \in {-1, 1}}
    \cup {[i \in Axes |-> IF i \in {3, 4} THEN d ELSE 0] : d \in {-1, 1}}

\* The crop boxes a batch run copies from an uncropped reference document of
\* another size.
ReferenceBoxes == {[i \in Axes |-> sz[i]] : sz \in ExportSizes}

InitExport ==
    /\ \E sz \in ExportSizes : NewDataDoc(sz)
    /\ NoCallState

NextExport ==
    \/ \E offset \in ExportCropOffsets, isMin \in BOOLEAN : moveCropbox(offset, isMin)
    \/ \E box \in ReferenceBoxes : assignCropbox([i \in Axes |-> 0], box)
    \/ \E wl \in Selections(size[0]), tp \in Selections(size[1]),
          sp \in SavePaths, headerWritten \in BOOLEAN :
            alignAndCropBegin(wl, tp, sp, headerWritten)
    \/ alignAndCropSlices
    \/ \E numWritten \in 0 .. size[2] : alignAndCropVolume(numWritten)
    \/ alignAndCropEnd
    \/ alignAndCropExit

SpecExport == InitExport /\ [][NextExport]_vars

(* ---------------- inputs of the alignment specification --------------- *)

\* Documents of one timepoint, flat (Z = 1) or MaxDim slices deep.
AlignSizes ==
    {sz \in [Axes -> 1 .. MaxDim] :
        /\ sz[0] \in {1, MaxDim} /\ sz[1] = 1 /\ sz[2] \in {1, MaxDim}
        /\ sz[3] = 1 /\ sz[4] = MaxDim}

\* Rows a controller sets: identity; a Z shift alone; a Z shift with an X shift,
\* a rotation or a zoom; an X shift alone.
AlignRows ==
    { [i \in Axes |-> IF i = 4 THEN zoom ELSE IF i = 3 THEN angle
                      ELSE IF i = 2 THEN dz ELSE IF i = 0 THEN dx ELSE 0] :
        dx \in {0, 1}, dz \in {0, 1}, angle \in {0, 90}, zoom \in {1, 2} }

InitAlign ==
    /\ \E sz \in AlignSizes : NewDataDoc(sz)
    /\ NoCallState

NextAlign ==
    \/ \E j \in 0 .. size[0] - 1, row \in AlignRows : setAlignParams(j, row)
    \/ \E wl \in Selections(size[0]), sp \in {NoPath, OtherPath} :
            alignAndCropBegin(wl, <<>>, sp, TRUE)
    \/ alignAndCropSlices
    \/ alignAndCropVolume(IF savePath = NoPath THEN 0 ELSE size[2])
    \/ alignAndCropEnd
    \/ alignAndCropExit

SpecAlign == InitAlign /\ [][NextAlign]_vars

(* ------------------ inputs of the slicing specification ---------------- *)

\* Documents of one or two wavelengths whose Y and X lengths differ, with
\* several timepoints or several Z planes.
SliceSizes ==
    {sz \in [Axes -> 1 .. MaxDim + 1] :
        /\ sz[0] \in {1, 2}
        /\ <<sz[1], sz[2]>> \in {<<1, MaxDim>>, <<MaxDim, 1>>}
        /\ sz[3] = MaxDim /\ sz[4] = MaxDim + 1}

\* The axes a viewer fixes (any subset of T, Z, Y, X), each at a position
\* inside the document.
AxesMappings ==
    UNION { {f \in [S -> 0 .. MaxDim] : \A a \in S : f[a] < size[a]} :
            S \in SUBSET (1 .. 4) }

\* Rows a controller sets while slices are taken: identity, or a shift in X.
SliceAlignRows == {IdentityRow, [IdentityRow EXCEPT ![0] = 1]}

InitSlice ==
    /\ \E sz \in SliceSizes : NewDataDoc(sz)
    /\ NoCallState

NextSlice ==
    \/ \E j \in 0 .. size[0] - 1, row \in SliceAlignRows : setAlignParams(j, row)
    \/ \E axes \in AxesMappings : takeSlicePlain(axes)

SpecSlice == InitSlice /\ [][NextSlice]_vars

(* ------------------- takeSlice with shouldTransform -------------------- *)

\* Division rounding toward zero, as a C cast of a quotient does.
TruncDiv(a, b) == IF a >= 0 THEN a \div b ELSE -((-a) \div b)

\* A value stored into an array of the document's pixel type: an integer type
\* drops the fraction, 32-bit float keeps the mean as it was computed.
CastToDtype(value, ty) ==
    IF ty = UInt16Type THEN Ratio(TruncDiv(value.num, value.den), 1) ELSE value

\* getTransformationMatrices for a row without rotation (cos = 1, sin = 0):
\* zoom * [[1, 0, 0, dx], [0, 1, 0, dy], [0, 0, 1, dz], [0, 0, 0, 1]].
TransformationMatrix(row) ==
    [r \in 1 .. 4 |-> [c \in 1 .. 4 |->
        row[4] * (IF r = c THEN 1 ELSE IF c = 4 THEN row[r - 1] ELSE 0)]]

GetTransformationMatrices == [w \in 0 .. size[0] - 1 |-> TransformationMatrix(alignParams[w])]

\* numpy.linalg.inv raises LinAlgError on a matrix of determinant 0; the
\* matrices above are upper triangular.
Singular(matrix) == matrix[1][1] * matrix[2][2] * matrix[3][3] * matrix[4][4] = 0

\* The matrix used as it is instead of its inverse.
Inverse_NotInverted(matrix) == matrix

\* numpy.linalg.inv of a matrix of unit diagonal whose other entries are in
\* its last column: the entries off the diagonal change sign.
Inverse(matrix) ==
    [r \in 1 .. 4 |-> [c \in 1 .. 4 |-> IF r = c THEN 1 ELSE -matrix[r][c]]]

\* targetAxes and targetShape: the axes the slice runs along, wavelength first.
TargetAxes(axes) == Ascending(Axes \ DOMAIN axes)
TargetShape(axes) == [k \in 1 .. Len(TargetAxes(axes)) |-> size[TargetAxes(axes)[k]]]

\* Whether the basis of a free spatial axis is reshaped into a column: its
\* length equals the slice's first extent and no earlier axis was reshaped
\* (haveAlreadyResized).
RECURSIVE IsColumn(_, _)
IsColumn(axis, axes) ==
    /\ axis \notin DOMAIN axes
    /\ size[axis] = TargetShape(axes)[2]
    /\ \A a \in 2 .. axis - 1 : ~IsColumn(a, axes)

\* targetCoords of a slice with two fixed axes: the (x, y, z) triple of the
\* output pixel p = <<row, column>>, component 4 - axis holding the axis.
TargetCoords(axes) ==
    [p \in (0 .. TargetShape(axes)[2] - 1) \X (0 .. TargetShape(axes)[3] - 1) |->
        [k \in 0 .. 2 |->
            LET axis == 4 - k
            IN IF axis \in DOMAIN axes THEN axes[axis]
               ELSE IF IsColumn(axis, axes) THEN p[1]
               ELSE IF size[axis] = 1 THEN 0
               ELSE p[2]]]

\* A row basis of length n is broadcast along the slice's second extent.
GridBroadcasts(axes) ==
    \A axis \in {2, 3, 4} \ DOMAIN axes :
        IsColumn(axis, axes) \/ size[axis] = 1 \/ size[axis] = TargetShape(axes)[3]

\* The time coordinate when the time indices are tiled over the output
\* pixels instead of repeated along its rows.
TimeCoordinate_Tiled(axes, p) ==
    IF 1 \notin DOMAIN axes
    THEN (p[1] * TargetShape(axes)[3] + p[2]) % size[1]
    ELSE axes[1]

\* The time coordinate of output pixel p = <<row, column>>: with time free,
\* numpy.arange(size[1]).repeat(pixels / size[1]) at the pixel's flat index;
\* with time fixed, axes[1]. The inverse transform is not applied to it.
TimeCoordinate(axes, p) ==
    LET numPixels == TargetShape(axes)[2] * TargetShape(axes)[3]
        flat == p[1] * TargetShape(axes)[3] + p[2]
    IN IF 1 \notin DOMAIN axes
       THEN flat \div (numPixels \div size[1])
       ELSE axes[1]

\* The position mapCoords looks up for output pixel p of a wavelength, as
\* <<t, z, y, x>> with the spatial coordinates in half voxels: the centre,
\* half of (X, Y, Z), is taken off, the inverse matrix applied to the column
\* (x, y, z, 1), and the centre put back.
\* The time coordinate is arange(size[1]).repeat(N / size[1]) at the pixel's
\* place in the flattened slice, or the fixed timepoint.
TransformedCoords(inverse, axes, p) ==
    LET xyz == TargetCoords(axes)[p]
        column == <<2 * xyz[0] - size[4], 2 * xyz[1] - size[3],
                    2 * xyz[2] - size[2], 2>>
        moved == [r \in 1 .. 3 |->
                    inverse[r][1] * column[1] + inverse[r][2] * column[2]
                    + inverse[r][3] * column[3] + inverse[r][4] * column[4]]
    IN <<2 * TimeCoordinate(axes, p), moved[3] + size[2], moved[2] + size[3],
         moved[1] + size[4]>>

\* scipy.ndimage.map_coordinates(self.imageArray[wavelength], coords, order = 1,
\* cval = self.averages[wavelength]) at one position given in half voxels: the
\* stored pixel at a whole position inside the volume, cval at a position with
\* a coordinate outside it.
InsideVolume(coord) ==
    \A k \in 1 .. 4 : coord[k] >= 0 /\ coord[k] <= 2 * (size[k] - 1)

MapCoordinates(wavelength, coord, cval) ==
    IF InsideVolume(coord)
    THEN Ratio(imageArray[<<wavelength, coord[1] \div 2, coord[2] \div 2,
                            coord[3] \div 2, coord[4] \div 2>>], 1)
    ELSE cval

\* The fill value with the average of wavelength 0 used for every wavelength.
FillValue_FirstWavelength(wavelength) == averages[0]

\* cval = self.averages[wavelength]
FillValue(wavelength) == averages[wavelength]

\* mapCoords past the inversion: result[wavelength] for every wavelength.
MapCoords(axes) ==
    LET shape == TargetShape(axes)
    IN [ shape |-> shape,
         data  |-> [r \in IndexTuples(shape) |->
                      CastToDtype(
                          MapCoordinates(r[1],
                              TransformedCoords(Inverse(GetTransformationMatrices[r[1]]),
                                                axes, <<r[2], r[3]>>),
                              FillValue(r[1])),
                          dtype)] ]

\* The lookups made when the inverse of each wavelength is taken inside the
\* loop: those of the wavelengths before the first singular matrix.
LookupsMade_LazyInverse ==
    Cardinality({w \in 0 .. size[0] - 1 :
                    \A v \in 0 .. w : ~Singular(GetTransformationMatrices[v])})

\* The map_coordinates calls a query makes: the inverses are all taken before
\* the loop over the wavelengths, which then makes one call each.
LookupsMade ==
    IF \E w \in 0 .. size[0] - 1 : Singular(GetTransformationMatrices[w])
    THEN 0
    ELSE size[0]

\* takeSlice(axes, shouldTransform = True, order = 1) for a slice with two
\* fixed axes.
takeSliceTransformed(axes) ==
    /\ BetweenCalls
    /\ sliceAxes' = axes
    /\ IF ~GridBroadcasts(axes)
       THEN /\ queryError' = "ValueError"
            /\ lookups' = 0
            /\ sliceResult' = <<>>
       ELSE IF \E w \in 0 .. size[0] - 1 : Singular(GetTransformationMatrices[w])
       THEN /\ queryError' = "LinAlgError"
            /\ lookups' = LookupsMade
            /\ sliceResult' = <<>>
       ELSE /\ queryError' = "none"
            /\ lookups' = LookupsMade
            /\ sliceResult' = <<MapCoords(axes)>>
    /\ lastCall' = [op |-> "takeSliceTransformed", over |-> FALSE]
    /\ probe' = <<>> /\ probeResult' = <<>> /\ transformFlag' = <<>>
    /\ UNCHANGED docVars
    /\ UNCHANGED callVars
    /\ UNCHANGED loadVars
    /\ UNCHANGED batchVars
    /\ UNCHANGED headerVars
    /\ UNCHANGED stripeVars

(* ------------------- getValuesAt, hasTransformation -------------------- *)

\* The position getValuesAt looks up for a wavelength, as <<t, z, y, x>>.
\* transposedCoord is an integer array, so taking the centre off in place
\* drops the fraction of each difference; the array built from the
\* transformed coordinate has dtype int and drops the fraction again.
ValueCoords(inverse, coord) ==
    LET column == <<TruncDiv(2 * coord[3] - size[4], 2),
                    TruncDiv(2 * coord[2] - size[3], 2),
                    TruncDiv(2 * coord[1] - size[2], 2), 1>>
        moved == [r \in 1 .. 3 |->
                    inverse[r][1] * column[1] + inverse[r][2] * column[2]
                    + inverse[r][3] * column[3] + inverse[r][4] * column[4]]
    IN <<coord[0], TruncDiv(2 * moved[3] + size[2], 2),
         TruncDiv(2 * moved[2] + size[3], 2), TruncDiv(2 * moved[1] + size[4], 2)>>

\* resultVals and resultCoords of getValuesAt.
GetValuesAtResult(coord) ==
    LET at(w) == ValueCoords(Inverse(GetTransformationMatrices[w]), coord)
    IN [ vals   |-> [w \in 0 .. size[0] - 1 |->
                       CastToDtype(
                           MapCoordinates(w, [k \in 1 .. 4 |-> 2 * at(w)[k]],
                                          FillValue(w)),
                           dtype)],
         coords |-> [w \in 0 .. size[0] - 1 |-> at(w)] ]

\* getValuesAt with the centre taken off the caller's own coordinate array.
getValuesAt_ShiftsView(coord) ==
    /\ BetweenCalls
    /\ probe' = coord
    /\ lookups' = LookupsMade
    /\ IF \E w \in 0 .. size[0] - 1 : Singular(GetTransformationMatrices[w])
       THEN /\ queryError' = "LinAlgError"
            /\ probeResult' = <<>>
       ELSE /\ queryError' = "none"
            /\ probeResult' = <<GetValuesAtResult(coord)>>
    /\ lastCall' = [op |-> "getValuesAt", over |-> FALSE]
    /\ curViewIndex' = [i \in Axes |->
                          IF i < 2 THEN curViewIndex[i]
                          ELSE TruncDiv(2 * curViewIndex[i] - size[i], 2)]
    /\ UNCHANGED <<size, imageArray, cropMin, cropMax, alignParams, filePath,
                   mrcBound>>
    /\ sliceAxes' = <<>> /\ sliceResult' = <<>> /\ transformFlag' = <<>>
    /\ UNCHANGED callVars
    /\ UNCHANGED loadVars
    /\ UNCHANGED batchVars
    /\ UNCHANGED headerVars
    /\ UNCHANGED stripeVars

\* getValuesAt(coord) for an integer (t, z, y, x) coordinate.
getValuesAt(coord) ==
    /\ BetweenCalls
    /\ probe' = coord
    /\ lookups' = LookupsMade
    /\ IF \E w \in 0 .. size[0] - 1 : Singular(GetTransformationMatrices[w])
       THEN /\ queryError' = "LinAlgError"
            /\ probeResult' = <<>>
       ELSE /\ queryError' = "none"
            /\ probeResult' = <<GetValuesAtResult(coord)>>
    /\ lastCall' = [op |-> "getValuesAt", over |-> FALSE]
    /\ UNCHANGED docVars
    /\ sliceAxes' = <<>> /\ sliceResult' = <<>> /\ transformFlag' = <<>>
    /\ UNCHANGED callVars
    /\ UNCHANGED loadVars
    /\ UNCHANGED batchVars
    /\ UNCHANGED headerVars
    /\ UNCHANGED stripeVars

\* The null value of each column of alignParams: [0, 0, 0, 0, 1].
NullValues == [i \in Axes |-> IF i = 4 THEN 1 ELSE 0]

\* hasTransformation with the zoom column compared to 0 like the others.
HasTransformation_ZoomNullIsZero ==
    \E i \in Axes : ~(\A w \in 0 .. size[0] - 1 : alignParams[w][i] = 0)

\* The return value of hasTransformation: some column of alignParams is not
\* all at its null value.
HasTransformation ==
    \E i \in Axes : ~(\A w \in 0 .. size[0] - 1 : alignParams[w][i] = NullValues[i])

hasTransformation ==
    /\ BetweenCalls
    /\ transformFlag' = <<HasTransformation>>
    /\ lastCall' = [op |-> "hasTransformation", over |-> FALSE]
    /\ sliceAxes' = <<>> /\ sliceResult' = <<>>
    /\ probe' = <<>> /\ probeResult' = <<>>
    /\ lookups' = 0 /\ queryError' = "none"
    /\ UNCHANGED docVars
    /\ UNCHANGED callVars
    /\ UNCHANGED loadVars
    /\ UNCHANGED batchVars
    /\ UNCHANGED headerVars
    /\ UNCHANGED stripeVars

\* getSliceCoords: the view index on the axes the view is normal to.
GetSliceCoords(axes) == [axis \in axes |-> curViewIndex[axis]]

\* takeDefaultSlice(perpendicularAxes, shouldTransform)
takeDefaultSlice(perpendicularAxes, shouldTransform) ==
    IF shouldTransform
    THEN takeSliceTransformed(GetSliceCoords(perpendicularAxes))
    ELSE takeSlicePlain(GetSliceCoords(perpendicularAxes))

(* ---------------- inputs of the resampling specification --------------- *)

\* Documents of two wavelengths with several timepoints or several Z planes,
\* of either pixel type.
ResampleSizes ==
    {sz \in [Axes -> 1 .. MaxDim + 1] :
        /\ sz[0] = 2
        /\ <<sz[1], sz[2]>> \in {<<1, MaxDim>>, <<MaxDim, 1>>}
        /\ sz[3] = MaxDim /\ sz[4] = MaxDim + 1}

\* Alignment rows without rotation: identity, whole-voxel shifts, and a row of
\* zoom 0.
ResampleRows ==
    { IdentityRow,
      [IdentityRow EXCEPT ![0] = 1],
      [IdentityRow EXCEPT ![0] = 2],
      [IdentityRow EXCEPT ![1] = -1, ![2] = 1],
      [IdentityRow EXCEPT ![0] = 1, ![4] = 0] }

\* The axes a 2D view fixes: two of T, Z, Y, X, each at a position inside the
\* document.
SlicePairs ==
    UNION { {f \in [S -> 0 .. MaxDim] : \A a \in S : f[a] < size[a]} :
            S \in {T \in SUBSET (1 .. 4) : Cardinality(T) = 2} }

ProbeCoords ==
    {c \in [0 .. 3 -> 0 .. MaxDim] : \A k \in 0 .. 3 : c[k] < size[k + 1]}

InitResample ==
    /\ \E sz \in ResampleSizes, ty \in PixelTypes : NewDataDocOfType(sz, ty)
    /\ NoCallState

\* The controller sets the alignment rows, then a view queries the document.
\* A query changes nothing of the document, so the queries that follow another
\* query reach no state that the first ones do not.
Aligning == lastCall.op \in {"none", "setAlignParams"}

NextResample ==
    \/ \E j \in 0 .. size[0] - 1, row \in ResampleRows : Aligning /\ setAlignParams(j, row)
    \/ \E axes \in SlicePairs : Aligning /\ takeSliceTransformed(axes)
    \/ \E coord \in ProbeCoords : Aligning /\ getValuesAt(coord)
    \/ Aligning /\ hasTransformation

SpecResample == InitResample /\ [][NextResample]_vars

(* ------------------------- loading a document -------------------------- *)

\* The axis a letter of dimOrder names.
AxisOf(letter) == CHOOSE i \in Axes : DimOrder[i] = letter

\* A file as the loader hands it over: the header counts hdr, the axis order
\* string, and the raw array of a document of size sz stored in that order
\* (an axis whose letter is absent is held at index 0).
StoredFile(sz, sequence, hdr, ty) ==
    LET n == Len(sequence)
        shape == [k \in 1 .. n |-> sz[AxisOf(sequence[k])]]
        present(i) == \E k \in 1 .. n : sequence[k] = DimOrder[i]
        canonical(j) ==
            [i \in 1 .. 5 |->
                IF present(i - 1)
                THEN j[CHOOSE k \in 1 .. n : sequence[k] = DimOrder[i - 1]]
                ELSE 0]
    IN [ hdr      |-> hdr,
         sequence |-> sequence,
         shape    |-> shape,
         data     |-> [j \in IndexTuples(shape) |-> LoadedPixels(sz)[canonical(j)]],
         dtype    |-> ty ]

\* numpy.expand_dims(array, -1): a new last axis of length 1.
ExpandDims(array) ==
    LET shape == Append(array.shape, 1)
    IN [ shape |-> shape,
         data  |-> [j \in IndexTuples(shape) |->
                      array.data[SubSeq(j, 1, Len(array.shape))]] ]

\* sequence.index(key): the first position of key, from 0.
IndexOf(sequence, key) ==
    (CHOOSE k \in 1 .. Len(sequence) :
        sequence[k] = key /\ \A m \in 1 .. k - 1 : sequence[m] # key) - 1

\* array.transpose(ordering) raises ValueError unless ordering names each axis
\* of the array once.
TransposeFails(array, ordering) ==
    \/ Len(ordering) # Len(array.shape)
    \/ \E k \in 0 .. Len(array.shape) - 1 :
          Cardinality({i \in 1 .. Len(ordering) : ordering[i] = k}) # 1

\* array.transpose(ordering): axis i of the result is axis ordering[i] of the
\* array.
Transpose(array, ordering) ==
    LET shape == [i \in 1 .. Len(ordering) |-> array.shape[ordering[i] + 1]]
        from(c) == [k \in 1 .. Len(array.shape) |->
                      c[CHOOSE i \in 1 .. Len(ordering) : ordering[i] + 1 = k]]
    IN [ shape |-> shape,
         data  |-> [c \in IndexTuples(shape) |-> array.data[from(c)]] ]

\* The loop of getImageArray over the wavelength and time axes: an axis of
\* length 1 is taken to be missing from the file, a last axis of length 1 is
\* added for it and its letter appended to the sequence.
PaddedSequence(img, sz) ==
    img.sequence \o (IF sz[0] = 1 THEN <<"w">> ELSE <<>>)
                 \o (IF sz[1] = 1 THEN <<"t">> ELSE <<>>)

PaddedArray(img, sz) ==
    LET raw == [shape |-> img.shape, data |-> img.data]
        first == IF sz[0] = 1 THEN ExpandDims(raw) ELSE raw
    IN IF sz[1] = 1 THEN ExpandDims(first) ELSE first

\* The ordering with each letter's canonical place looked up at the place of
\* the sequence: the inverse of the permutation wanted.
Ordering_OfLetterAtPlace(sequence) ==
    [i \in 1 .. 5 |-> IF i <= Len(sequence) THEN AxisOf(sequence[i]) ELSE 0]

\* ordering: for each letter of dimOrder, its place in the sequence.
Ordering(sequence) == [i \in 1 .. 5 |-> IndexOf(sequence, DimOrder[i - 1])]

\* The exception getImageArray ends with, or "none": sequence.index raises
\* ValueError for a letter the sequence lacks, and so does transpose when the
\* array does not have the five axes of the ordering.
GetImageArrayError(img, sz) ==
    IF \E i \in Axes :
          \A k \in 1 .. Len(PaddedSequence(img, sz)) :
              PaddedSequence(img, sz)[k] # DimOrder[i]
    THEN "ValueError"
    ELSE IF TransposeFails(PaddedArray(img, sz), Ordering(PaddedSequence(img, sz)))
    THEN "ValueError"
    ELSE "none"

\* Raveled positions, C order: of an index tuple in an array of a shape, and
\* back.
RECURSIVE Ravel(_, _)
Ravel(index, shape) ==
    IF Len(shape) = 0 THEN 0
    ELSE Ravel(SubSeq(index, 1, Len(shape) - 1), SubSeq(shape, 1, Len(shape) - 1))
            * shape[Len(shape)] + index[Len(shape)]

\* getImageArray with the padded array reshaped to the canonical lengths
\* instead of transposed.
GetImageArray_Reshaped(img, sz) ==
    LET padded == PaddedArray(img, sz)
        shape == Transpose(padded, Ordering(PaddedSequence(img, sz))).shape
    IN [ shape |-> shape,
         data  |-> [c \in IndexTuples(shape) |->
                      padded.data[CHOOSE j \in DOMAIN padded.data :
                                     Ravel(j, padded.shape) = Ravel(c, shape)]] ]

\* getImageArray when it raises nothing: the padded array transposed into
\* w, t, z, y, x order.
GetImageArray(img, sz) ==
    Transpose(PaddedArray(img, sz), Ordering(PaddedSequence(img, sz)))

\* self.size as __init__ takes it from the header.
HeaderSize(hdr) ==
    [i \in Axes |->
        CASE i = 0 -> hdr.NumWaves
          [] i = 1 -> hdr.NumTimes
          [] i = 2 -> hdr.Num[3] \div (hdr.NumWaves * hdr.NumTimes)
          [] i = 3 -> hdr.Num[2]
          [] i = 4 -> hdr.Num[1]]

\* No DataDoc exists yet: only the file does.
NoDocument(img) ==
    /\ image = img
    /\ created = "no"
    /\ size = <<>>
    /\ imageArray = <<>>
    /\ dtype = "none"
    /\ averages = <<>>
    /\ cropMin = <<>>
    /\ cropMax = <<>>
    /\ curViewIndex = <<>>
    /\ alignParams = <<>>
    /\ filePath = NoPath
    /\ mrcBound = FALSE

\* DataDoc.__init__(image).
DataDocInit ==
    /\ created = "no"
    /\ LET sz == HeaderSize(image.hdr)
       IN IF GetImageArrayError(image, sz) # "none"
          THEN /\ created' = GetImageArrayError(image, sz)
               /\ UNCHANGED <<docVars, dtype, averages>>
          ELSE LET array == GetImageArray(image, sz)
               IN IF sz[0] > array.shape[1]
                  THEN /\ created' = "IndexError"
                       /\ UNCHANGED <<docVars, dtype, averages>>
                  ELSE /\ created' = "yes"
                       /\ size' = sz
                       /\ imageArray' = array.data
                       /\ dtype' = image.dtype
                       /\ averages' = [w \in 0 .. sz[0] - 1 |->
                                          WavelengthMean(array.data, w)]
                       /\ cropMin' = [i \in Axes |-> 0]
                       /\ cropMax' = [i \in Axes |-> sz[i]]
                       /\ curViewIndex' = [i \in Axes |->
                                              IF i = 1 THEN 0 ELSE sz[i] \div 2]
                       /\ alignParams' = [w \in 0 .. sz[0] - 1 |-> IdentityRow]
                       /\ filePath' = SourcePath
                       /\ mrcBound' = TRUE
    /\ lastCall' = [op |-> "DataDocInit", over |-> FALSE]
    /\ UNCHANGED image
    /\ UNCHANGED batchVars
    /\ UNCHANGED headerVars
    /\ UNCHANGED stripeVars
    /\ UNCHANGED callVars
    /\ UNCHANGED sliceVars
    /\ UNCHANGED queryVars

(* ----------------- inputs of the loading specification ----------------- *)

\* Documents of one or two wavelengths, timepoints and Z planes.
LoadSizes ==
    {sz \in [Axes -> 1 .. MaxDim + 1] :
        /\ sz[0] <= 2 /\ sz[1] <= 2 /\ sz[2] <= 2
        /\ sz[3] = MaxDim /\ sz[4] = MaxDim + 1}

\* The axis order strings of a document of size sz: every order of z, y, x
\* and of w and t where these are longer than 1.
StorageOrders(sz) ==
    LET letters == {"z", "y", "x"} \cup (IF sz[0] > 1 THEN {"w"} ELSE {})
                                   \cup (IF sz[1] > 1 THEN {"t"} ELSE {})
        n == Cardinality(letters)
    IN {s \in [1 .. n -> letters] : \A a, b \in 1 .. n : s[a] = s[b] => a = b}

\* The header that agrees with the raw array of a document of size sz.
MatchingHeader(sz) ==
    [NumWaves |-> sz[0], NumTimes |-> sz[1],
     Num |-> <<sz[4], sz[3], sz[2] * sz[0] * sz[1]>>]

\* Headers that disagree with it: one section too many, one Z plane too many
\* for every wavelength and timepoint, or a single wavelength declared for a
\* file of two.
MismatchedHeaders(sz) ==
    { [MatchingHeader(sz) EXCEPT !.Num[3] = @ + 1],
      [MatchingHeader(sz) EXCEPT !.Num[3] = @ + sz[0] * sz[1]] }
    \cup (IF sz[0] > 1 THEN {[MatchingHeader(sz) EXCEPT !.NumWaves = 1]} ELSE {})

\* The letters of the axes a document of size sz stores, in w, t, z, y, x order.
CanonicalOrder(sz) == [k \in 1 .. Len(StoredAxes(sz)) |-> DimOrder[StoredAxes(sz)[k]]]

\* The files loaded: every storage order with the matching header, in both
\* pixel types; the canonical order with each mismatched header; and a file
\* that stores a wavelength axis of length 1 under a header declaring two.
LoadFiles ==
    UNION { {StoredFile(sz, s, MatchingHeader(sz), ty) :
                s \in StorageOrders(sz), ty \in PixelTypes}
            \cup {StoredFile(sz, CanonicalOrder(sz), hdr, Float32Type) :
                    hdr \in MismatchedHeaders(sz)}
            \cup (IF sz[0] = 1
                  THEN {StoredFile(sz, <<"w">> \o CanonicalOrder(sz),
                                   [MatchingHeader(sz) EXCEPT !.NumWaves = 2,
                                                              !.Num[3] = 2 * @],
                                   Float32Type)}
                  ELSE {})
            : sz \in LoadSizes }

InitLoad ==
    /\ \E img \in LoadFiles : NoDocument(img)
    /\ NoCallState

NextLoad == DataDocInit

SpecLoad == InitLoad /\ [][NextLoad]_vars

(* ---------------- inputs of the operations specification --------------- *)

\* Documents of two wavelengths and one timepoint, flat (Z = 1) or MaxDim
\* planes deep, one row high.
FrameSizes ==
    {sz \in [Axes -> 1 .. MaxDim] :
        /\ sz[0] = 2 /\ sz[1] = 1 /\ sz[2] \in {1, MaxDim}
        /\ sz[3] = 1 /\ sz[4] = MaxDim}

\* Rows a controller sets for the first wavelength: identity, a Z shift, an X
\* shift.
FrameRows ==
    {IdentityRow, [IdentityRow EXCEPT ![2] = 1], [IdentityRow EXCEPT ![0] = 1]}

\* One step along one axis.
UnitOffsets(axes) ==
    {[i \in Axes |-> IF i = a THEN d ELSE 0] : a \in axes, d \in {-1, 1}}

\* The pairs of axes perpendicular to the XY, XZ and YZ views.
ViewAxes == {{1, 2}, {1, 3}, {1, 4}}

\* The controllers edit the alignment, the slice lines and the crop box; then
\* either the views query the document or the exporter runs.
Editing == lastCall.op \in {"none", "setAlignParams", "moveSliceLines", "moveCropbox"}
Viewing == lastCall.op # "alignAndCrop"
Exporting == lastCall.op \notin {"takeSlice", "takeSliceTransformed", "getValuesAt"}

InitFrame ==
    /\ \E sz \in FrameSizes : NewDataDoc(sz)
    /\ NoCallState

NextFrame ==
    \/ \E row \in FrameRows : Editing /\ setAlignParams(0, row)
    \/ \E offset \in UnitOffsets({2, 4}) : Editing /\ moveSliceLines(offset)
    \/ \E offset \in UnitOffsets({4}), isMin \in BOOLEAN :
          Editing /\ moveCropbox(offset, isMin)
    \/ \E axes \in ViewAxes, shouldTransform \in BOOLEAN :
          Viewing /\ takeDefaultSlice(axes, shouldTransform)
    \/ Viewing /\ getValuesAt([k \in 0 .. 3 |-> curViewIndex[k + 1]])
    \/ \E sp \in {NoPath, OtherPath} :
          Exporting /\ alignAndCropBegin(<<>>, <<>>, sp, TRUE)
    \/ alignAndCropSlices
    \/ alignAndCropVolume(IF savePath = NoPath THEN 0 ELSE size[2])
    \/ alignAndCropEnd
    \/ alignAndCropExit

SpecFrame == InitFrame /\ [][NextFrame]_vars

(* --------------------- the batch dialog: OnStart ----------------------- *)

\* Python 2 division of two numpy integers: the floor of the quotient, and 0
\* (with a warning) when the divisor is 0.
NumpyIntDiv(a, b) ==
    IF b = 0 THEN 0
    ELSE IF b > 0 THEN a \div b
    ELSE (-a) \div (-b)

\* Lines 72-76 and 100-108: the parameters of the selected document are read,
\* the files chosen, and the loop over them begins. saveOver is whether the
\* directory chosen for saving is the one the files are in.
OnStart(chosen, shouldCrop, shouldAlign, saveOver) ==
    /\ batchPc = "off"
    /\ BetweenCalls
    /\ files' = chosen
    /\ fileIndex' = 0
    /\ reference' = [ alignParams  |-> alignParams,
                      cropMin      |-> cropMin,
                      cropMax      |-> cropMax,
                      cropSize     |-> [i \in Axes |-> cropMax[i] - cropMin[i]],
                      initialShape |-> size,
                      shouldCrop   |-> shouldCrop,
                      shouldAlign  |-> shouldAlign,
                      saveOver     |-> saveOver ]
    /\ progress' = <<>>
    /\ batchPc' = "open"
    /\ lastCall' = [op |-> "OnStart", over |-> FALSE]
    /\ UNCHANGED docVars
    /\ UNCHANGED callVars
    /\ UNCHANGED sliceVars
    /\ UNCHANGED loadVars
    /\ UNCHANGED queryVars
    /\ UNCHANGED headerVars
    /\ UNCHANGED stripeVars

\* Lines 109-111: progress.Update(i, name) and Mrc.bindFile(file) for the next
\* file.
batchOpen ==
    /\ batchPc = "open"
    /\ fileIndex < Len(files)
    /\ progress' = Append(progress, [value |-> fileIndex, message |-> "file"])
    /\ image' = CanonicalFile(files[fileIndex + 1].size, Float32Type)
    /\ created' = "no"
    /\ batchPc' = "init"
    /\ error' = "none"
    /\ UNCHANGED docVars
    /\ UNCHANGED <<dtype, averages, lastCall, files, fileIndex, reference>>
    /\ UNCHANGED <<pc, wavelengths, timepoints, savePath, croppedShape, newHeader,
                   outputArray, outFile, filesOpened, fileContent, volumeSlices,
                   loopPos, result>>
    /\ UNCHANGED sliceVars
    /\ UNCHANGED queryVars
    /\ UNCHANGED headerVars
    /\ UNCHANGED stripeVars

\* Line 112: doc = datadoc.DataDoc(image).
batchInit ==
    /\ batchPc = "init"
    /\ IF created = "no"
       THEN DataDocInit
       ELSE /\ batchPc' = IF created = "yes" THEN "edit" ELSE "aborted"
            /\ error' = IF created = "yes" THEN "none" ELSE created
            /\ UNCHANGED docVars
            /\ UNCHANGED <<lastCall, files, fileIndex, reference, progress>>
            /\ UNCHANGED <<pc, wavelengths, timepoints, savePath, croppedShape,
                           newHeader, outputArray, outFile, filesOpened,
                           fileContent, volumeSlices, loopPos, result>>
            /\ UNCHANGED sliceVars
            /\ UNCHANGED loadVars
            /\ UNCHANGED queryVars
            /\ UNCHANGED headerVars
            /\ UNCHANGED stripeVars

\* heightScale of line 117.
HeightScale(docSize, cropSize, initialShape) ==
    NumpyIntDiv(docSize[2] - cropSize[0], initialShape[2] - cropSize[0])

\* newBoxMin and newBoxMax of lines 118-121: copies of the reference bounds
\* with entry 0 replaced.
NewBox(docSize, ref) ==
    LET scale == HeightScale(docSize, ref.cropSize, ref.initialShape)
        newBoxMin == [ref.cropMin EXCEPT ![0] = ref.cropMin[0] * scale]
    IN [min |-> newBoxMin,
        max |-> [ref.cropMax EXCEPT ![0] = newBoxMin[0] + ref.cropSize[0]]]

\* The loop of lines 129-132: the reference rows are copied one by one, as far
\* as the target has wavelengths.
CopiedRows(rows, ref) ==
    [j \in DOMAIN rows |-> IF j \in DOMAIN ref.alignParams
                           THEN ref.alignParams[j] ELSE rows[j]]

\* Lines 113-132: the crop box and the alignment rows are set on the new
\* document.
batchEdit ==
    /\ batchPc = "edit"
    /\ IF reference.shouldCrop
       THEN /\ cropMin' = NewBox(size, reference).min
            /\ cropMax' = NewBox(size, reference).max
       ELSE UNCHANGED <<cropMin, cropMax>>
    /\ alignParams' = IF reference.shouldAlign
                      THEN CopiedRows(alignParams, reference)
                      ELSE alignParams
    /\ batchPc' = "export"
    /\ lastCall' = [op |-> "batchEdit", over |-> FALSE]
    /\ UNCHANGED <<size, imageArray, curViewIndex, filePath, mrcBound>>
    /\ UNCHANGED <<files, fileIndex, reference, progress>>
    /\ UNCHANGED callVars
    /\ UNCHANGED sliceVars
    /\ UNCHANGED loadVars
    /\ UNCHANGED queryVars
    /\ UNCHANGED headerVars
    /\ UNCHANGED stripeVars

\* Lines 133-134: doc.alignAndCrop(savePath = targetFilename), which is the
\* document's own path when the files are saved over.
batchExport ==
    /\ batchPc = "export"
    /\ lastCall.op = "batchEdit"
    /\ alignAndCropBegin(<<>>, <<>>,
                         IF reference.saveOver THEN SourcePath ELSE OtherPath,
                         TRUE)

\* alignAndCrop has returned or raised: the loop goes on to the next file, or
\* the exception leaves OnStart.
batchNext ==
    /\ batchPc = "export"
    /\ pc \in {"returned", "raised"}
    /\ pc' = "idle"
    /\ wavelengths' = <<>>
    /\ timepoints' = <<>>
    /\ savePath' = NoPath
    /\ croppedShape' = <<>>
    /\ newHeader' = <<>>
    /\ outputArray' = <<>>
    /\ outFile' = "none"
    /\ filesOpened' = 0
    /\ fileContent' = <<>>
    /\ volumeSlices' = <<>>
    /\ loopPos' = [ti |-> 0, wi |-> 0]
    /\ result' = <<>>
    /\ UNCHANGED error
    /\ IF pc = "returned"
       THEN /\ fileIndex' = fileIndex + 1
            /\ batchPc' = "open"
       ELSE /\ batchPc' = "aborted"
            /\ UNCHANGED fileIndex
    /\ UNCHANGED docVars
    /\ UNCHANGED <<lastCall, files, reference, progress>>
    /\ UNCHANGED sliceVars
    /\ UNCHANGED loadVars
    /\ UNCHANGED queryVars
    /\ UNCHANGED headerVars
    /\ UNCHANGED stripeVars

\* Line 135: progress.Update(len(files), "All done!").
batchDone ==
    /\ batchPc = "open"
    /\ fileIndex = Len(files)
    /\ progress' = Append(progress, [value |-> Len(files), message |-> "All done!"])
    /\ batchPc' = "done"
    /\ UNCHANGED docVars
    /\ UNCHANGED <<lastCall, files, fileIndex, reference>>
    /\ UNCHANGED callVars
    /\ UNCHANGED sliceVars
    /\ UNCHANGED loadVars
    /\ UNCHANGED queryVars
    /\ UNCHANGED headerVars
    /\ UNCHANGED stripeVars

(* ----------------- inputs of the batch specification ------------------- *)

\* The selected document and the files: one wavelength, one or MaxDim
\* timepoints and Z planes, a single row of MaxDim pixels.
BatchSizes ==
    {sz \in [Axes -> 1 .. MaxDim] :
        /\ sz[0] = 1 /\ sz[1] \in {1, MaxDim} /\ sz[2] \in {1, MaxDim}
        /\ sz[3] = 1 /\ sz[4] = MaxDim}

\* The files a user picks: one or two.
BatchFiles ==
    LET file == {[size |-> sz] : sz \in BatchSizes}
    IN {<<f>> : f \in file} \cup {<<f, g>> : f, g \in file}

\* The crop box of the selected document moved by one plane in Z or one pixel
\* in X before the batch is started.
BatchCropOffsets == {[i \in Axes |-> IF i = a THEN 1 ELSE 0] : a \in {2, 4}}

InitBatch ==
    /\ \E sz \in BatchSizes : NewDataDoc(sz)
    /\ NoCallState

NextBatch ==
    \/ \E offset \in BatchCropOffsets :
          batchPc = "off" /\ lastCall.op # "setAlignParams" /\ moveCropbox(offset, TRUE)
    \/ batchPc = "off" /\ setAlignParams(0, [IdentityRow EXCEPT ![0] = 1])
    \/ \E chosen \in BatchFiles, shouldCrop \in BOOLEAN, saveOver \in BOOLEAN :
          OnStart(chosen, shouldCrop, TRUE, saveOver)
    \/ batchOpen
    \/ batchInit
    \/ batchEdit
    \/ batchExport
    \/ alignAndCropSlices
    \/ \E numWritten \in 0 .. size[2] : alignAndCropVolume(numWritten)
    \/ alignAndCropEnd
    \/ batchNext
    \/ batchDone

SpecBatch == InitBatch /\ [][NextBatch]_vars

(* ------------------------- the extended header ------------------------- *)

\* getExtendedHeaderIndex(timepoint, wavelength, zIndex), called on the
\* document: the sequence is read off the header, the extents off self.size.
getExtendedHeaderIndex(timepoint, wavelength, zIndex) ==
    /\ BetweenCalls
    /\ headerIndex' =
          << [ timepoint  |-> timepoint,
               wavelength |-> wavelength,
               zIndex     |-> zIndex,
               index      |-> GetExtendedHeaderIndex(imgSequence, size[0], size[1],
                                  size[2], timepoint, wavelength, zIndex) ] >>
    /\ lastCall' = [op |-> "getExtendedHeaderIndex", over |-> FALSE]
    /\ UNCHANGED imgSequence
    /\ UNCHANGED docVars
    /\ UNCHANGED callVars
    /\ UNCHANGED sliceVars
    /\ UNCHANGED loadVars
    /\ UNCHANGED queryVars
    /\ UNCHANGED batchVars
    /\ UNCHANGED stripeVars

(* ------------- inputs of the extended header specification ------------- *)

\* Documents of up to MaxDim wavelengths, timepoints and Z planes, one pixel
\* each.
HeaderSizes ==
    {sz \in [Axes -> 1 .. MaxDim] : sz[3] = 1 /\ sz[4] = 1}

\* The values of ImgSequence: ztw, wzt and zwt.
ImgSequences == 0 .. 2

InitHeader ==
    /\ \E sz \in HeaderSizes : NewDataDoc(sz)
    /\ CallsIdle
    /\ imgSequence \in ImgSequences
    /\ fileSystem = <<>>

NextHeader ==
    \E timepoint \in 0 .. size[1] - 1, wavelength \in 0 .. size[0] - 1,
       zIndex \in 0 .. size[2] - 1 :
        getExtendedHeaderIndex(timepoint, wavelength, zIndex)

SpecHeader == InitHeader /\ [][NextHeader]_vars

(* ------------------ the stripe filter: filter_stripes ------------------ *)

\* A plane is [ny, nx, pix], pix giving the value at <<y, x>>. The planes
\* filtered here have axis lengths 1, 2 or 4, for which every factor of the
\* discrete Fourier transform is 1, i, -1 or -i: a complex number is kept as
\* [re, im] with whole parts.
Complex(re, im) == [re |-> re, im |-> im]
CAdd(a, b) == Complex(a.re + b.re, a.im + b.im)
CMul(a, b) == Complex(a.re * b.re - a.im * b.im, a.re * b.im + a.im * b.re)

\* i to the power q.
IPower(q) ==
    LET r == q % 4
    IN IF r = 0 THEN Complex(1, 0)
       ELSE IF r = 1 THEN Complex(0, 1)
       ELSE IF r = 2 THEN Complex(-1, 0)
       ELSE Complex(0, -1)

\* exp(sign * 2 pi i * k * m / n) for n in {1, 2, 4}.
Twiddle(n, k, m, sign) == IPower(sign * k * m * (4 \div n))

PlaneCells(ny, nx) == (0 .. ny - 1) \X (0 .. nx - 1)

RECURSIVE CSumOver(_, _)
CSumOver(f, D) ==
    IF D = {} THEN Complex(0, 0)
    ELSE LET c == CHOOSE c \in D : TRUE IN CAdd(f[c], CSumOver(f, D \ {c}))

\* np.fft.fft2 of a plane of whole values.
Fft2(plane) ==
    [plane EXCEPT !.pix =
        [k \in PlaneCells(plane.ny, plane.nx) |->
            CSumOver([c \in PlaneCells(plane.ny, plane.nx) |->
                         CMul(Complex(plane.pix[c], 0),
                              CMul(Twiddle(plane.ny, k[1], c[1], -1),
                                   Twiddle(plane.nx, k[2], c[2], -1)))],
                     PlaneCells(plane.ny, plane.nx))]]

\* np.fft.fftshift: every axis rolled by half its length, which puts the zero
\* frequency at index n / 2.
FftShift(grid) ==
    [grid EXCEPT !.pix =
        [k \in PlaneCells(grid.ny, grid.nx) |->
            grid.pix[<<(k[1] - grid.ny \div 2) % grid.ny,
                       (k[2] - grid.nx \div 2) % grid.nx>>]]]

\* np.fft.ifftshift: every axis rolled back by half its length.
IfftShift(grid) ==
    [grid EXCEPT !.pix =
        [k \in PlaneCells(grid.ny, grid.nx) |->
            grid.pix[<<(k[1] + grid.ny \div 2) % grid.ny,
                       (k[2] + grid.nx \div 2) % grid.nx>>]]]

\* The assignment with the lines exchanged and the value 0: the centre row
\* zeroed for horizontal stripes, the centre column for vertical ones.
SuppressStripe_RowZeroed(img_f, horizontal) ==
    [img_f EXCEPT !.pix =
        [k \in PlaneCells(img_f.ny, img_f.nx) |->
            IF horizontal /\ k[1] = img_f.ny \div 2 THEN Complex(0, 0)
            ELSE IF ~horizontal /\ k[2] = img_f.nx \div 2 THEN Complex(0, 0)
            ELSE img_f.pix[k]]]

\* Lines 85-90: img_f[:, xc:xc+1] = 1.0 with xc = shape[1] / 2 for horizontal
\* stripes, img_f[yc:yc+1, :] = 1.0 with yc = shape[0] / 2 otherwise.
SuppressStripe(img_f, horizontal) ==
    [img_f EXCEPT !.pix =
        [k \in PlaneCells(img_f.ny, img_f.nx) |->
            IF horizontal /\ k[2] = img_f.nx \div 2 THEN Complex(1, 0)
            ELSE IF ~horizontal /\ k[1] = img_f.ny \div 2 THEN Complex(1, 0)
            ELSE img_f.pix[k]]]

\* np.fft.ifft2(...).real, each value as its numerator over ny * nx.
Ifft2RealTimesSize(grid) ==
    [grid EXCEPT !.pix =
        [c \in PlaneCells(grid.ny, grid.nx) |->
            CSumOver([k \in PlaneCells(grid.ny, grid.nx) |->
                         CMul(grid.pix[k],
                              CMul(Twiddle(grid.ny, k[1], c[1], 1),
                                   Twiddle(grid.nx, k[2], c[2], 1)))],
                     PlaneCells(grid.ny, grid.nx)).re]]

\* Lines 84-92 up to the assignment: the centred frequency grid of the plane.
Spectrum(yx_slice) == FftShift(Fft2(yx_slice))

\* Lines 91-92: img_filtered, as numerators over ny * nx.
ImgFiltered(img_f) == Ifft2RealTimesSize(IfftShift(img_f))

\* The plane returned without the offset: img_filtered itself.
Returned_WithoutOffset(yx_slice, img_filtered) ==
    LET n == yx_slice.ny * yx_slice.nx
    IN [yx_slice EXCEPT !.pix =
          [c \in PlaneCells(yx_slice.ny, yx_slice.nx) |->
              Ratio(img_filtered.pix[c], n)]]

\* Lines 93-95: residual = yx_slice - img_filtered, and img_filtered +
\* residual.mean(). The residual's numerators are over ny * nx, its mean and
\* the returned values over the square of that.
Returned(yx_slice, img_filtered) ==
    LET n == yx_slice.ny * yx_slice.nx
        cells == PlaneCells(yx_slice.ny, yx_slice.nx)
        residual == [c \in cells |-> yx_slice.pix[c] * n - img_filtered.pix[c]]
    IN [yx_slice EXCEPT !.pix =
          [c \in cells |-> Ratio(img_filtered.pix[c] * n + SumOver(residual, cells),
                                 n * n)]]

\* filter_stripes(yx_slice, horizontal): the centred grid before and after
\* the assignment, and the plane returned.
FilterStripes(yx_slice, horizontal) ==
    LET img_f == SuppressStripe(Spectrum(yx_slice), horizontal)
    IN [ yx_slice   |-> yx_slice,
         horizontal |-> horizontal,
         spectrum   |-> Spectrum(yx_slice),
         img_f      |-> img_f,
         returned   |-> Returned(yx_slice, ImgFiltered(img_f)) ]

(* ---------------------- the stripe filter: main ------------------------ *)

Int16Type == "int16"

\* A value assigned into the bound file's array: a 16-bit integer file drops
\* the fraction, a 32-bit float file keeps the value as computed.
StoreInFile(value, ty) ==
    IF ty = Int16Type THEN Ratio(TruncDiv(value.num, value.den), 1) ELSE value

StorePlane(plane, ty) ==
    [plane EXCEPT !.pix = [c \in DOMAIN plane.pix |-> StoreInFile(plane.pix[c], ty)]]

\* A plane read from a file that holds whole values, as filter_stripes gets it.
WholeValues(plane) ==
    [plane EXCEPT !.pix = [c \in DOMAIN plane.pix |-> plane.pix[c].num]]

\* addTag(file_path, tag): the path is kept as os.path.splitext splits it,
\* [root, ext], the root as the sequence of its pieces.
addTag(file_path, tag) ==
    [root |-> file_path.root \o <<"_", tag>>, ext |-> file_path.ext]

\* The file bound for writing when it is the input file itself.
BoundPath_Input(input_path, output_path) == input_path

\* Line 51: fMrc = Mrc.bindFile(output_path, writable=1).
BoundPath(input_path, output_path) == output_path

\* Lines 42-55: the input is looked up; when it exists it is copied to the
\* tagged path and the copy is bound as a flat list of planes.
stripeMain(argv) ==
    /\ stripePc = "off"
    /\ stripeCall = <<>>
    /\ inputPath' = <<argv>>
    /\ IF argv \notin DOMAIN fileSystem
       THEN /\ stripePc' = "exited"
            /\ UNCHANGED <<fileSystem, outputPath>>
       ELSE LET output_path == addTag(argv, "FFS")
            IN /\ outputPath' = <<output_path>>
               /\ fileSystem' =
                     [path \in DOMAIN fileSystem \cup {output_path} |->
                         IF path = output_path THEN fileSystem[argv]
                         ELSE fileSystem[path]]
               /\ stripePc' = "loop"
    /\ UNCHANGED <<stripePlane, filteredPlanes, stripeCall, lastCall>>
    /\ UNCHANGED docVars
    /\ UNCHANGED callVars
    /\ UNCHANGED sliceVars
    /\ UNCHANGED loadVars
    /\ UNCHANGED queryVars
    /\ UNCHANGED batchVars
    /\ UNCHANGED headerVars

\* Lines 57-58, one pass: xy_slices[p,:,:] = filter_stripes(xy_slices[p,:,:]).
stripeFilterPlane ==
    /\ stripePc = "loop"
    /\ LET bound == BoundPath(inputPath[1], outputPath[1])
           p == stripePlane
       IN /\ p < Len(fileSystem[bound].planes)
          /\ LET call == FilterStripes(WholeValues(fileSystem[bound].planes[p + 1]), TRUE)
             IN /\ fileSystem' =
                      [fileSystem EXCEPT
                         ![bound].planes[p + 1] =
                             StorePlane(call.returned, fileSystem[bound].dtype)]
                /\ stripeCall' = <<call>>
          /\ filteredPlanes' = Append(filteredPlanes, p)
          /\ stripePlane' = p + 1
    /\ UNCHANGED <<stripePc, inputPath, outputPath, lastCall>>
    /\ UNCHANGED docVars
    /\ UNCHANGED callVars
    /\ UNCHANGED sliceVars
    /\ UNCHANGED loadVars
    /\ UNCHANGED queryVars
    /\ UNCHANGED batchVars
    /\ UNCHANGED headerVars

\* The loop of line 57 is over and main returns.
stripeEnd ==
    /\ stripePc = "loop"
    /\ stripePlane >= Len(fileSystem[BoundPath(inputPath[1], outputPath[1])].planes)
    /\ stripePc' = "done"
    /\ UNCHANGED <<fileSystem, inputPath, outputPath, stripePlane, filteredPlanes,
                   stripeCall, lastCall>>
    /\ UNCHANGED docVars
    /\ UNCHANGED callVars
    /\ UNCHANGED sliceVars
    /\ UNCHANGED loadVars
    /\ UNCHANGED queryVars
    /\ UNCHANGED batchVars
    /\ UNCHANGED headerVars

\* filter_stripes called on its own, in either mode.
filterStripes(yx_slice, horizontal) ==
    /\ stripePc = "off"
    /\ stripeCall' = <<FilterStripes(yx_slice, horizontal)>>
    /\ UNCHANGED <<fileSystem, stripePc, inputPath, outputPath, stripePlane,
                   filteredPlanes, lastCall>>
    /\ UNCHANGED docVars
    /\ UNCHANGED callVars
    /\ UNCHANGED sliceVars
    /\ UNCHANGED loadVars
    /\ UNCHANGED queryVars
    /\ UNCHANGED batchVars
    /\ UNCHANGED headerVars

(* --------------- inputs of the stripe filter specification ------------- *)

\* Axis lengths of the planes.
StripeLengths == {1, 2, 4}

\* Pixel values of plane p: uneven rows, uneven columns, or both.
StripePixel(kind, p, y, x) ==
    IF kind = "rows" THEN 10 * y + p + 1
    ELSE IF kind = "columns" THEN 10 * x + p + 1
    ELSE 7 * y + 3 * x + x * y * (p + 1) + p

\* A file of nplanes planes of ny by nx pixels.
StripeFile(ny, nx, nplanes, kind, ty) ==
    [ dtype  |-> ty,
      planes |-> [p \in 1 .. nplanes |->
                    [ ny  |-> ny,
                      nx  |-> nx,
                      pix |-> [c \in PlaneCells(ny, nx) |->
                                 Ratio(StripePixel(kind, p - 1, c[1], c[2]), 1)] ]] ]

StackPath == [root |-> <<"stack">>, ext |-> ".dv"]
AbsentPath == [root |-> <<"absent">>, ext |-> ".dv"]

\* What is on disk before the script runs: the stack, alone or with the file
\* an earlier run left at the tagged path.
StripeDisks ==
    LET stacks == {StripeFile(ny, nx, nplanes, kind, ty) :
                      ny \in StripeLengths, nx \in StripeLengths,
                      nplanes \in 1 .. MaxDim,
                      kind \in {"rows", "columns", "both"},
                      ty \in {Int16Type, Float32Type}}
        earlier == StripeFile(1, 1, 1, "rows", Int16Type)
    IN {[path \in {StackPath} |-> f] : f \in stacks}
       \cup {[path \in {StackPath, addTag(StackPath, "FFS")} |->
                IF path = StackPath THEN f ELSE earlier] : f \in stacks}

InitStripe ==
    /\ NewDataDoc([i \in Axes |-> 1])
    /\ CallsIdle
    /\ imgSequence = ImgSequenceZWT
    /\ fileSystem \in StripeDisks

NextStripe ==
    \/ \E argv \in {StackPath, addTag(StackPath, "FFS"), AbsentPath} : stripeMain(argv)
    \/ stripeFilterPlane
    \/ stripeEnd
    \/ \E p \in 1 .. Len(fileSystem[StackPath].planes), horizontal \in BOOLEAN :
          filterStripes(WholeValues(fileSystem[StackPath].planes[p]), horizontal)

SpecStripe == InitStripe /\ [][NextStripe]_vars

(* ------------------------------- claims -------------------------------- *)

\* C1: after any sequence of moveCropbox calls on a fresh document, every axis
\* has 0 <= cropMin[i] <= cropMax[i] <= size[i].
C1_CropBoxOrdered ==
    \A i \in Axes :
        /\ 0 <= cropMin[i]
        /\ cropMin[i] <= cropMax[i]
        /\ cropMax[i] <= size[i]

\* What moveCropbox does keep: each bound on its own stays inside [0, size[i]].
CropBoundsClamped ==
    \A i \in Axes :
        /\ 0 <= cropMin[i] /\ cropMin[i] <= size[i]
        /\ 0 <= cropMax[i] /\ cropMax[i] <= size[i]

\* C2: after any sequence of moveSliceLines calls on a fresh document, every
\* axis has 0 <= curViewIndex[i] < size[i].
C2_ViewIndexInBounds ==
    \A i \in Axes : 0 <= curViewIndex[i] /\ curViewIndex[i] < size[i]

\* C2's case: an offset larger than the full extent has just been applied, and
\* the time index has left its initial value for the last timepoint.
C2_Witness ==
    /\ lastCall = [op |-> "moveSliceLines", over |-> TRUE]
    /\ size[1] >= 2
    /\ curViewIndex[1] = size[1] - 1

(* ---------------------- what a call has exported ----------------------- *)

Streaming == savePath # NoPath

\* 0 <= cropMin[i] <= cropMax[i] <= size[i] on every axis.
ValidCropBounds ==
    \A i \in Axes : 0 <= cropMin[i] /\ cropMin[i] <= cropMax[i] /\ cropMax[i] <= size[i]

\* The Z-slices written so far, in the order written.
SlicesWritten == SelectSeq(fileContent, LAMBDA item : item.kind = "slice")

\* Z-slices of one volume the crop box selects.
SlicesPerVolume == SliceLen([lo |-> cropMin[2], hi |-> cropMax[2]], size[2])

\* The stored pixel under pixel c of a cropped volume taken from src = <<w, t>>.
StoredUnder(src, c) ==
    imageArray[<< src[1], src[2],
                  c[1] + SliceStart([lo |-> cropMin[2], hi |-> cropMax[2]], size[2]),
                  c[2] + SliceStart([lo |-> cropMin[3], hi |-> cropMax[3]], size[3]),
                  c[3] + SliceStart([lo |-> cropMin[4], hi |-> cropMax[4]], size[4]) >>]

\* C3: the header written by a streaming alignAndCrop describes the new shape:
\* NumWaves and NumTimes are the numbers of exported wavelengths and timepoints,
\* Num[2] = NumWaves * NumTimes * (cropMax[2] - cropMin[2]) and is the number of
\* Z-slices streamed once the call returns; PixelType is float32, next is 0.
C3_HeaderDescribesOutput ==
    (Streaming /\ Len(fileContent) >= 1) =>
        LET hdr == fileContent[1].hdr
        IN /\ hdr.NumWaves = Len(wavelengths)
           /\ hdr.NumTimes = Len(timepoints)
           /\ hdr.Num[2] = hdr.NumWaves * hdr.NumTimes * (cropMax[2] - cropMin[2])
           /\ pc = "returned" => hdr.Num[2] = Len(SlicesWritten)
           /\ hdr.PixelType = MrcModeFloat32
           /\ hdr.next = 0

\* C4: in a streaming alignAndCrop the header is the first thing written and is
\* written once; the k-th Z-slice written is the one at section index
\* t*W*Z + w*Z + z of the ImgSequence = 2 ordering, t, w and z being the
\* positions of the slice's timepoint, wavelength and plane in the export; it
\* holds the pixels of that timepoint and wavelength; and a call that returns
\* has written every (timepoint, wavelength, z) triple, each once.
C4_HeaderThenSlicesInOrder ==
    Streaming =>
        /\ pc \in {"slices", "loop", "returned"} => Len(fileContent) >= 1
        /\ \A k \in 1 .. Len(fileContent) : (fileContent[k].kind = "header") <=> (k = 1)
        /\ Len(fileContent) >= 1 => fileContent[1].hdr.ImgSequence = ImgSequenceZWT
        /\ \A k \in 1 .. Len(SlicesWritten) :
              LET item == SlicesWritten[k]
              IN /\ item.pos[1] \in 0 .. Len(timepoints) - 1
                 /\ item.pos[2] \in 0 .. Len(wavelengths) - 1
                 /\ item.pos[3] \in 0 .. SlicesPerVolume - 1
                 /\ GetExtendedHeaderIndex(ImgSequenceZWT, Len(wavelengths),
                                           Len(timepoints), SlicesPerVolume,
                                           item.pos[1], item.pos[2], item.pos[3]) = k - 1
                 /\ item.src = <<wavelengths[item.pos[2] + 1], timepoints[item.pos[1] + 1]>>
                 /\ item.xf = <<>> =>
                       \A c \in DOMAIN item.pix :
                           item.pix[c] = StoredUnder(item.src, <<item.pos[3], c[1], c[2]>>)
        /\ pc = "returned" =>
              Len(SlicesWritten) = Len(timepoints) * Len(wavelengths) * SlicesPerVolume

\* C4's case: a streaming export of two timepoints, two wavelengths and two
\* planes each has returned, with all eight slices after the header.
C4_Witness ==
    /\ Streaming
    /\ pc = "returned"
    /\ Len(timepoints) >= 2
    /\ Len(wavelengths) >= 2
    /\ SlicesPerVolume >= 2
    /\ Len(fileContent) = 1 + Len(timepoints) * Len(wavelengths) * SlicesPerVolume

\* C5: a streaming alignAndCrop opens at most one output file, and whenever the
\* call is left, by return or by an error, that file has been closed.
C5_OutputClosedOnEveryExit ==
    /\ filesOpened <= 1
    /\ pc \in {"returned", "raised"} => outFile # "open"

\* C6: a call whose destination is the document's own filePath releases the
\* source binding before the output file is opened, and the export goes on,
\* also when it is the second such call; other destinations leave it alone.
C6_SourceReleasedThenExport ==
    [][ (pc = "idle" /\ pc' # "idle") =>
            IF savePath' = filePath
            THEN /\ error' # "AttributeError"
                 /\ outFile' # "none"
                 /\ ~mrcBound'
            ELSE mrcBound' = mrcBound ]_vars

\* C7: an in-memory alignAndCrop with valid crop bounds returns an array of
\* shape (selected wavelengths, cropMax[1]-cropMin[1], cropMax[2]-cropMin[2],
\* cropMax[3]-cropMin[3], cropMax[4]-cropMin[4]), indexed by (wavelength,
\* timepoint), each stored volume having the cropped Z, Y, X extents; a
\* 1x1x20x20x20 document cropped by 5 voxels at each end of X and Y gives
\* (1, 1, 20, 10, 10).
C7_InMemoryShape ==
    /\ (pc = "returned" /\ ~Streaming /\ ValidCropBounds) =>
          LET array == result[1]
          IN /\ array.shape = [i \in Axes |->
                                 IF i = 0 THEN Len(wavelengths)
                                 ELSE cropMax[i] - cropMin[i]]
             /\ DOMAIN array.cells =
                   (0 .. Len(wavelengths) - 1) \X (0 .. cropMax[1] - cropMin[1] - 1)
             /\ \A c \in DOMAIN array.cells :
                   array.cells[c] # <<>> =>
                       array.cells[c][1].dims = << cropMax[2] - cropMin[2],
                                                   cropMax[3] - cropMin[3],
                                                   cropMax[4] - cropMin[4] >>
    /\ TransposeTW(EmptyArray(CroppedShape(1,
            [i \in Axes |-> IF i >= 3 THEN 5 ELSE 0],
            [i \in Axes |-> IF i <= 1 THEN 1 ELSE IF i = 2 THEN 20 ELSE 15]))).shape
         = [i \in Axes |-> IF i <= 1 THEN 1 ELSE IF i = 2 THEN 20 ELSE 10]

\* C7's case: an in-memory call has returned for a box that lost a voxel of X
\* and of Y and is whole in Z and time, every wavelength selected and every
\* cell of the array stored.
C7_Witness ==
    /\ pc = "returned"
    /\ ~Streaming
    /\ ValidCropBounds
    /\ cropMin[4] > 0 /\ cropMin[3] > 0
    /\ cropMax[4] > cropMin[4] /\ cropMax[3] > cropMin[3]
    /\ cropMin[2] = 0 /\ cropMax[2] = size[2]
    /\ cropMin[1] = 0 /\ cropMax[1] = size[1]
    /\ Len(wavelengths) = size[0]
    /\ size[0] >= 2
    /\ \A c \in DOMAIN result[1].cells : result[1].cells[c] # <<>>

\* The volumes a call has exported so far: the stored cells of outputArray and
\* the Z-slices written to the file.
Exported ==
    { outputArray.cells[c][1] :
        c \in {d \in (IF outputArray = <<>> THEN {} ELSE DOMAIN outputArray.cells) :
                  outputArray.cells[d] # <<>>} }
    \cup { [dims |-> <<1, item.dims[1], item.dims[2]>>,
            pix |-> [c \in ZYX(<<1, item.dims[1], item.dims[2]>>) |->
                        item.pix[<<c[2], c[3]>>]],
            src |-> item.src, xf |-> item.xf, params |-> item.params] :
           item \in {SlicesWritten[k] : k \in 1 .. Len(SlicesWritten)} }

\* C8: in a document of Z extent 1, a sample whose alignment row has dz # 0 is
\* exported as if dz were 0: untransformed, equal to the cropped source pixels,
\* when the rest of the row is identity, and transformed with dz = 0 otherwise.
C8_DzSuppressedIn2D ==
    size[2] = 1 =>
        \A v \in Exported :
            v.params[2] # 0 =>
                IF v.params[0] = 0 /\ v.params[1] = 0 /\ v.params[3] = 0 /\ v.params[4] = 1
                THEN /\ v.xf = <<>>
                     /\ \A c \in DOMAIN v.pix : v.pix[c] = StoredUnder(v.src, c)
                ELSE v.xf = << [dx |-> v.params[0], dy |-> v.params[1], dz |-> 0,
                                angle |-> Radians(v.params[3]), zoom |-> v.params[4]] >>

\* C8's case: a flat document has exported one sample whose row is a Z shift
\* alone and one whose row also shifts X.
C8_Witness ==
    /\ size[2] = 1
    /\ pc = "returned"
    /\ \E v \in Exported :
          /\ v.params[2] # 0 /\ v.params[0] = 0 /\ v.params[3] = 0 /\ v.params[4] = 1
          /\ v.xf = <<>>
    /\ \E v \in Exported :
          /\ v.params[2] # 0 /\ v.params[0] # 0
          /\ v.xf # <<>>

\* C9: with crop bounds inconsistent with the size, alignAndCrop fails with a
\* dimension error on either path before any output: no output file is opened
\* or written, and the call never returns. (Runs in which the file system
\* refuses a write are left aside: they end in an IOError of their own.)
C9_InconsistentCropRejected ==
    (pc # "idle" /\ ~ValidCropBounds /\ error # "IOError") =>
        /\ pc # "returned"
        /\ outFile = "none"
        /\ fileContent = <<>>
        /\ pc = "raised" => error = "ValueError"

\* The axes of T, Z, Y, X a takeSlice argument leaves free, in that order.
FreeAxes(axes) == Ascending((1 .. 4) \ DOMAIN axes)

\* C10: takeSlice(axes, shouldTransform = False) returns an array of shape
\* [numWavelengths] + (lengths of the free axes in T,Z,Y,X order) whose element
\* at (w, free indices) is the stored pixel of wavelength w at the fixed
\* coordinates and those free indices, whatever alignParams holds.
C10_PlainSliceIsDirectIndexing ==
    lastCall.op = "takeSlice" =>
        LET free == FreeAxes(sliceAxes)
            array == sliceResult[1]
        IN /\ sliceResult # <<>>
           /\ array.shape = <<size[0]>> \o [k \in 1 .. Len(free) |-> size[free[k]]]
           /\ Cardinality(DOMAIN array.data) =
                 size[0] * Cardinality({c \in Coords(size) :
                                          /\ c[1] = 0
                                          /\ \A a \in DOMAIN sliceAxes : c[a + 1] = sliceAxes[a]})
           /\ \A c \in Coords(size) :
                 (\A a \in DOMAIN sliceAxes : c[a + 1] = sliceAxes[a]) =>
                     array.data[<<c[1]>> \o [k \in 1 .. Len(free) |-> c[free[k] + 1]]]
                         = imageArray[c]

\* C10's case: an XY slice at fixed T and Z has been taken from a document of
\* several wavelengths, one of them carrying a non-identity alignment row.
C10_Witness ==
    /\ lastCall.op = "takeSlice"
    /\ DOMAIN sliceAxes = {1, 2}
    /\ size[0] >= 2 /\ size[2] >= 2
    /\ sliceAxes[2] = 1
    /\ \E w \in DOMAIN alignParams : alignParams[w] # IdentityRow

(* ----------------------- claims on the resampler ----------------------- *)

\* Every alignment row is a shift by whole voxels: no rotation, zoom 1.
PureTranslations ==
    \A w \in 0 .. size[0] - 1 : alignParams[w][3] = 0 /\ alignParams[w][4] = 1

\* The voxel <<t, z, y, x>> lies inside the stored volume.
InVolume(pos) == \A k \in 1 .. 4 : pos[k] >= 0 /\ pos[k] < size[k]

\* C11: with whole-voxel translations, the XY slice taken at (t, z) by
\* takeSlice(shouldTransform = True) holds at output pixel (x, y) of wavelength w
\* the stored value of w at (x - dx, y - dy, z - dz), whenever that position is
\* inside the volume.
C11_TranslationRelocatesVoxels ==
    (lastCall.op = "takeSliceTransformed" /\ DOMAIN sliceAxes = {1, 2}
        /\ PureTranslations) =>
        /\ sliceResult # <<>>
        /\ sliceResult[1].shape = <<size[0], size[3], size[4]>>
        /\ \A w \in 0 .. size[0] - 1, y \in 0 .. size[3] - 1, x \in 0 .. size[4] - 1 :
              LET source == <<sliceAxes[1], sliceAxes[2] - alignParams[w][2],
                              y - alignParams[w][1], x - alignParams[w][0]>>
              IN InVolume(source) =>
                    sliceResult[1].data[<<w, y, x>>] =
                        [num |-> imageArray[<<w>> \o source], den |-> 1]

\* C11's case: with dx = 2 for a wavelength, the voxel stored at x = 0 shows at
\* x = 2 of the XY slice, while a wavelength shifted in Y and Z shows the voxel
\* of the neighbouring row and plane.
C11_Witness ==
    /\ lastCall.op = "takeSliceTransformed" /\ DOMAIN sliceAxes = {1, 2}
    /\ sliceResult # <<>>
    /\ size[2] >= 2
    /\ alignParams[0] = [IdentityRow EXCEPT ![0] = 2]
    /\ alignParams[1] = [IdentityRow EXCEPT ![1] = -1, ![2] = 1]
    /\ sliceAxes[2] = 1
    /\ sliceResult[1].data[<<0, 0, 2>>] =
          [num |-> imageArray[<<0, sliceAxes[1], 1, 0, 0>>], den |-> 1]
    /\ sliceResult[1].data[<<1, 0, 0>>] =
          [num |-> imageArray[<<1, sliceAxes[1], 0, 1, 0>>], den |-> 1]

\* The position a transformed slice reads for output pixel p of wavelength w
\* under a whole-voxel translation: the pixel's pre-transform coordinate less
\* the shift of the wavelength, as <<z, y, x>>.
ShiftedPosition(w, p) ==
    LET xyz == TargetCoords(sliceAxes)[p]
    IN <<xyz[2] - alignParams[w][2], xyz[1] - alignParams[w][1],
         xyz[0] - alignParams[w][0]>>

OutsideVolume(zyx) == \E k \in 1 .. 3 : zyx[k] < 0 \/ zyx[k] >= size[k + 1]

\* The output pixels of the last transformed slice, as <<w, row, column>>.
SlicePixels == DOMAIN sliceResult[1].data

C13_TimeCoordinateUntransformed ==
    (lastCall.op = "takeSliceTransformed" /\ sliceResult # <<>>) =>
        \A r \in SlicePixels :
            LET time == IF 1 \in DOMAIN sliceAxes THEN sliceAxes[1] ELSE r[2]
                zyx == ShiftedPosition(r[1], <<r[2], r[3]>>)
            IN ~OutsideVolume(zyx) =>
                  sliceResult[1].data[r] =
                      [num |-> imageArray[<<r[1], time>> \o zyx], den |-> 1]

\* C13's case: a slice across time of a document with several timepoints, one
\* wavelength shifted, whose second row holds voxels of the second timepoint;
\* and a slice at a fixed second timepoint of the same kind of document.
C13_Witness ==
    /\ lastCall.op = "takeSliceTransformed" /\ sliceResult # <<>>
    /\ size[1] >= 2
    /\ alignParams[1] # IdentityRow
    /\ \E r \in SlicePixels :
          /\ r[1] = 1
          /\ ~OutsideVolume(ShiftedPosition(1, <<r[2], r[3]>>))
          /\ \/ 1 \notin DOMAIN sliceAxes /\ r[2] = 1
             \/ 1 \in DOMAIN sliceAxes /\ sliceAxes[1] = 1
          /\ sliceResult[1].data[r] =
                [num |-> imageArray[<<1, 1>> \o ShiftedPosition(1, <<r[2], r[3]>>)],
                 den |-> 1]

\* Some wavelength's zoom is 0.
SomeZoomIsZero == \E w \in 0 .. size[0] - 1 : alignParams[w][4] = 0

\* C14: when some wavelength's zoom is 0, takeSlice(shouldTransform = True) and
\* getValuesAt end with the singular-matrix error, no interpolated lookup of
\* any wavelength has been made, and no result is returned.
C14_ZeroZoomFailsBeforeLookup ==
    (lastCall.op \in {"takeSliceTransformed", "getValuesAt"} /\ SomeZoomIsZero) =>
        /\ queryError = "LinAlgError"
        /\ lookups = 0
        /\ sliceResult = <<>>
        /\ probeResult = <<>>

\* C14's case: the second wavelength has zoom 0 while the first is invertible,
\* and a transformed slice was asked for.
C14_Witness ==
    /\ lastCall.op = "takeSliceTransformed"
    /\ alignParams[0][4] = 1
    /\ alignParams[1][4] = 0
    /\ queryError = "LinAlgError"
    /\ lookups = 0
    /\ sliceResult = <<>>

\* C18: hasTransformation returns true exactly when the row of some wavelength
\* differs from identity (dx = dy = dz = 0, angle = 0, zoom = 1).
C18_HasTransformationIffNotIdentity ==
    lastCall.op = "hasTransformation" =>
        /\ transformFlag # <<>>
        /\ transformFlag[1] =
              (\E w \in 0 .. size[0] - 1 :
                  \/ alignParams[w][0] # 0 \/ alignParams[w][1] # 0
                  \/ alignParams[w][2] # 0 \/ alignParams[w][3] # 0
                  \/ alignParams[w][4] # 1)

\* C18's case: a fresh document, every row identity, answered false.
C18_Witness ==
    /\ lastCall.op = "hasTransformation"
    /\ \A w \in 0 .. size[0] - 1 : alignParams[w] = IdentityRow
    /\ transformFlag = <<FALSE>>

(* ------------------------- claims on loading --------------------------- *)

\* The file is one the loader describes correctly: the axis order string holds
\* each stored letter once, w and t are left off exactly when their length is
\* 1, and the raw array has the header's length along every stored axis.
ValidFile(img) ==
    LET sz == HeaderSize(img.hdr)
        n == Len(img.sequence)
    IN /\ img.hdr.Num[3] = sz[2] * sz[0] * sz[1]
       /\ \A a, b \in 1 .. n : img.sequence[a] = img.sequence[b] => a = b
       /\ {img.sequence[k] : k \in 1 .. n} =
             {"z", "y", "x"} \cup (IF sz[0] > 1 THEN {"w"} ELSE {})
                             \cup (IF sz[1] > 1 THEN {"t"} ELSE {})
       /\ \A k \in 1 .. n : img.shape[k] = sz[AxisOf(img.sequence[k])]

\* C15: for every valid axis order string and matching raw array, the document
\* is created and its imageArray has five axes whose lengths are the size
\* vector (W, T, Z, Y, X) of the header.
C15_ImageArrayShapeIsSize ==
    (created # "no" /\ ValidFile(image)) =>
        /\ created = "yes"
        /\ size = HeaderSize(image.hdr)
        /\ DOMAIN imageArray = Coords(size)

\* C15's case: a file of two wavelengths and one timepoint stored in x, w, z, y
\* order, the time axis left off, loaded into an array of the size vector.
C15_Witness ==
    /\ created = "yes"
    /\ ValidFile(image)
    /\ image.sequence = <<"x", "w", "z", "y">>
    /\ size[0] = 2 /\ size[1] = 1 /\ size[2] = 2
    /\ DOMAIN imageArray = Coords(size)

\* The lengths of a five-axis array given by its index tuples.
ShapeOfArray(array) ==
    [i \in 1 .. 5 |->
        1 + CHOOSE m \in 0 .. MaxDim + 1 :
                /\ \E c \in DOMAIN array : c[i] = m
                /\ \A c \in DOMAIN array : c[i] <= m]

\* The permutation that undoes an ordering.
InverseOrdering(ordering) ==
    [k \in 1 .. Len(ordering) |->
        (CHOOSE i \in 1 .. Len(ordering) : ordering[i] = k - 1) - 1]

\* C16: the element of imageArray at [w][t][z][y][x] is the raw element whose
\* index along each storage axis is the canonical index of that axis's letter,
\* and transposing imageArray with the inverse of the ordering gives the raw
\* array padded with its length-1 axes.
C16_ImageArrayOnlyReorders ==
    created = "yes" =>
        /\ \A c \in DOMAIN imageArray :
              imageArray[c] =
                  image.data[[k \in 1 .. Len(image.sequence) |->
                                 c[AxisOf(image.sequence[k]) + 1]]]
        /\ Transpose([shape |-> ShapeOfArray(imageArray), data |-> imageArray],
                     InverseOrdering(Ordering(PaddedSequence(image, size))))
              = PaddedArray(image, size)

\* C16's case: a file stored in t, z, w, y, x order, whose ordering is not its
\* own inverse; the raw element at index <<0, 1, 1, 1, 2>> is the canonical one
\* at [1][0][1][1][2].
C16_Witness ==
    /\ created = "yes"
    /\ image.sequence = <<"t", "z", "w", "y", "x">>
    /\ size[2] = 2
    /\ Ordering(image.sequence) # InverseOrdering(Ordering(image.sequence))
    /\ imageArray[<<1, 0, 1, 1, 2>>] = image.data[<<0, 1, 1, 1, 2>>]
    /\ imageArray[<<1, 0, 1, 1, 2>>] # image.data[<<1, 0, 1, 1, 2>>]
\* The number of elements the header-derived size vector calls for.
HeaderElementCount(hdr) ==
    HeaderSize(hdr)[0] * HeaderSize(hdr)[1] * HeaderSize(hdr)[2]
        * HeaderSize(hdr)[3] * HeaderSize(hdr)[4]

\* C17: creating a DataDoc fails whenever the sizes derived from the header do
\* not multiply to the raw array's element count, and no document is ever
\* produced whose size vector disagrees with its pixel array.
C17_ShapeMismatchRejected ==
    /\ (created # "no"
            /\ HeaderElementCount(image.hdr) # Cardinality(DOMAIN image.data)) =>
          created \notin {"no", "yes"}
    /\ created = "yes" => DOMAIN imageArray = Coords(size)

(* ----------------------- claims on the operations ---------------------- *)

\* The operations that only read the document.
ReadOperations == {"takeSlice", "takeSliceTransformed", "getValuesAt", "alignAndCrop"}

\* C19: no step of any operation changes size, the pixel array or the
\* averages, and the steps of takeSlice, getValuesAt and alignAndCrop also
\* leave alignParams, cropMin, cropMax and curViewIndex as they were.
C19_OperationsKeepDocument ==
    [][ /\ size' = size
        /\ imageArray' = imageArray
        /\ averages' = averages
        /\ lastCall'.op \in ReadOperations =>
              /\ alignParams' = alignParams
              /\ cropMin' = cropMin
              /\ cropMax' = cropMax
              /\ curViewIndex' = curViewIndex ]_vars

\* C19's case: a flat document whose first wavelength has a Z shift has been
\* aligned and cropped in memory, the shift suppressed for the transform, and
\* the row of alignParams still holds the shift.
C19_Witness ==
    /\ lastCall.op = "alignAndCrop"
    /\ pc = "returned"
    /\ result # <<>>
    /\ size[2] = 1
    /\ alignParams[0] = [IdentityRow EXCEPT ![2] = 1]
    /\ imageArray = LoadedPixels(size)

\* The loop of the running alignAndCrop call has stored or written a volume.
VolumeDone == loopPos.ti > 0 \/ loopPos.wi > 0

\* C20 for a call no edit interleaves with: the Z, Y and X extents of the
\* volumes alignAndCrop crops and writes are those of croppedShape, from which
\* the header and the pre-sized output array were made.
C20_ExtentsAgreeWithoutInterleaving ==
    (lastCall.op = "alignAndCrop" /\ pc \in {"loop", "returned"} /\ VolumeDone) =>
        /\ \A a \in 2 .. 4 : SliceLen(volumeSlices[a], size[a]) = croppedShape[a]
        /\ Streaming =>
              /\ newHeader[1].Num[0] = SliceLen(volumeSlices[4], size[4])
              /\ newHeader[1].Num[1] = SliceLen(volumeSlices[3], size[3])

(* ---------------------- claims on the batch dialog --------------------- *)

\* C21: a failure while loading or exporting one file of a batch ends that
\* file only: a batch that has stopped has taken up every file and made its
\* final 'All done!' update.
C21_BatchContinuesAfterFailure ==
    batchPc \in {"done", "aborted"} =>
        /\ batchPc = "done"
        /\ \A i \in 0 .. Len(files) - 1 :
              \E k \in 1 .. Len(progress) : progress[k].value = i
        /\ progress[Len(progress)].message = "All done!"

\* C28: when the batch dialog crops a file, the Z bounds keep the reference
\* crop's number of slices, the W, T, Y and X bounds are those of the
\* reference, and the bounds lie in order inside the file's size.
C28_BatchCropRepositionsZ ==
    (batchPc = "export" /\ reference.shouldCrop) =>
        /\ \A i \in Axes \ {2} :
              cropMin[i] = reference.cropMin[i] /\ cropMax[i] = reference.cropMax[i]
        /\ cropMax[2] - cropMin[2] = reference.cropSize[2]
        /\ \A i \in Axes :
              0 <= cropMin[i] /\ cropMin[i] <= cropMax[i] /\ cropMax[i] <= size[i]

(* ------------------- claims on the exported samples -------------------- *)

\* C25: an in-memory alignAndCrop over a valid crop box, whatever its time
\* range and whichever timepoints are selected, raises nothing and returns an
\* array in which every cell is written and cell (i, j) holds the cropped
\* volume of wavelengths[i] at the j-th exported timepoint.
C25_EveryPairInItsOwnCell ==
    (pc \in {"returned", "raised"} /\ ~Streaming /\ ValidCropBounds) =>
        /\ pc = "returned"
        /\ LET array == result[1]
           IN /\ DOMAIN array.cells =
                    (0 .. Len(wavelengths) - 1) \X (0 .. Len(timepoints) - 1)
              /\ \A c \in DOMAIN array.cells :
                    /\ array.cells[c] # <<>>
                    /\ array.cells[c][1].src =
                          <<wavelengths[c[1] + 1], timepoints[c[2] + 1]>>

\* C26: whichever wavelengths are selected, a sample taken from wavelength w
\* is exported with the alignment row of w, and it is left untransformed
\* exactly when that row (its dz dropped in a flat document) is the identity.
C26_RowOfSelectedWavelength ==
    \A v \in Exported :
        LET row == alignParams[v.src[1]]
        IN /\ v.params = row
           /\ (v.xf = <<>>) <=>
                 ~NeedsTransform(row[0], row[1], SuppressDz(row[2], size[2]),
                                 row[3], row[4])

(* ----------------- claims on the transformed slice grid ---------------- *)

\* The index of output pixel p that runs along a free axis: the row index for
\* the first free axis after the wavelengths, the column index for the second.
OwnIndex(axes, axis, p) ==
    IF \E b \in 1 .. axis - 1 : b \notin DOMAIN axes THEN p[2] ELSE p[1]

\* C27: in the grid takeSlice builds for a transformed 2D slice, the triple of
\* every output pixel holds, for each spatial axis, the pixel's own index along
\* the axis when the axis is free and the fixed value when it is fixed, also
\* when axis lengths coincide.
C27_GridHoldsOwnIndices ==
    lastCall.op = "takeSliceTransformed" =>
        \A p \in DOMAIN TargetCoords(sliceAxes) :
            \A axis \in 2 .. 4 :
                TargetCoords(sliceAxes)[p][4 - axis] =
                    IF axis \in DOMAIN sliceAxes THEN sliceAxes[axis]
                    ELSE OwnIndex(sliceAxes, axis, p)

(* ------------------------- claims on getValuesAt ----------------------- *)

\* C29: with every alignment row the identity, getValuesAt at an in-range
\* integer coordinate returns, for each wavelength, that same coordinate and
\* the pixel stored there, whether the axis lengths are odd or even.
C29_IdentityReturnsStoredPixel ==
    (lastCall.op = "getValuesAt"
        /\ \A w \in 0 .. size[0] - 1 : alignParams[w] = IdentityRow) =>
        /\ probeResult # <<>>
        /\ \A w \in 0 .. size[0] - 1 :
              /\ probeResult[1].coords[w] = <<probe[0], probe[1], probe[2], probe[3]>>
              /\ probeResult[1].vals[w] =
                    [num |-> imageArray[<<w, probe[0], probe[1], probe[2], probe[3]>>],
                     den |-> 1]

(* --------------------- claims on the extended header ------------------- *)

\* The section number of an in-range (timepoint, wavelength, zIndex) in the
\* document at hand.
SectionOf(timepoint, wavelength, zIndex) ==
    GetExtendedHeaderIndex(imgSequence, size[0], size[1], size[2],
                           timepoint, wavelength, zIndex)

\* C30: for ImgSequence 0, 1 and 2 getExtendedHeaderIndex maps the in-range
\* triples one-to-one onto 0 .. T*W*Z - 1; the index that steps the result by
\* one is z for sequences 0 and 2 and the wavelength for sequence 1.
C30_HeaderIndexOneToOne ==
    headerIndex # <<>> =>
        LET call == headerIndex[1]
            times == 0 .. size[1] - 1
            waves == 0 .. size[0] - 1
            planes == 0 .. size[2] - 1
        IN /\ call.index \in 0 .. size[0] * size[1] * size[2] - 1
           /\ \A t \in times, w \in waves, z \in planes :
                 SectionOf(t, w, z) = call.index =>
                     <<t, w, z>> = <<call.timepoint, call.wavelength, call.zIndex>>
           /\ \A k \in 0 .. size[0] * size[1] * size[2] - 1 :
                 \E t \in times, w \in waves, z \in planes : SectionOf(t, w, z) = k
           /\ IF imgSequence = 1
              THEN call.wavelength + 1 \in waves =>
                      SectionOf(call.timepoint, call.wavelength + 1, call.zIndex)
                          = call.index + 1
              ELSE call.zIndex + 1 \in planes =>
                      SectionOf(call.timepoint, call.wavelength, call.zIndex + 1)
                          = call.index + 1

\* C30's case: in a wzt file of several wavelengths, timepoints and planes,
\* the section of wavelength 0 at timepoint 1, plane 1 was asked for.
C30_Witness ==
    /\ headerIndex # <<>>
    /\ imgSequence = 1
    /\ size[0] >= 2 /\ size[1] >= 2 /\ size[2] >= 2
    /\ headerIndex[1].timepoint = 1 /\ headerIndex[1].zIndex = 1
    /\ headerIndex[1].wavelength = 0
    /\ headerIndex[1].index = size[2] * size[0] + size[0]

(* ---------------------- claims on the stripe filter -------------------- *)

\* The bins of the centred grid on the centre row (index height / 2) and on
\* the centre column (index width / 2).
OnCentreRow(grid, k) == k[1] = grid.ny \div 2
OnCentreColumn(grid, k) == k[2] = grid.nx \div 2

\* C22: filter_stripes changes exactly one line of the centred frequency grid
\* and sets it to zero: the centre row in horizontal mode, the centre column
\* in vertical mode.
C22_CentreLineZeroed ==
    stripeCall # <<>> =>
        LET call == stripeCall[1]
        IN \A k \in DOMAIN call.img_f.pix :
              IF \/ call.horizontal /\ OnCentreRow(call.img_f, k)
                 \/ ~call.horizontal /\ OnCentreColumn(call.img_f, k)
              THEN call.img_f.pix[k] = Complex(0, 0)
              ELSE call.img_f.pix[k] = call.spectrum.pix[k]

\* C22, amended: filter_stripes overwrites exactly one line of the centred
\* frequency grid, every bin of it with 1.0, and leaves every other bin as
\* transformed: the centre column in horizontal mode, the centre row in
\* vertical mode.
C22_CentreLineSetToOne ==
    stripeCall # <<>> =>
        LET call == stripeCall[1]
        IN /\ call.spectrum = Spectrum(call.yx_slice)
           /\ \A k \in DOMAIN call.img_f.pix :
                 IF \/ call.horizontal /\ OnCentreColumn(call.img_f, k)
                    \/ ~call.horizontal /\ OnCentreRow(call.img_f, k)
                 THEN call.img_f.pix[k] = Complex(1, 0)
                 ELSE call.img_f.pix[k] = call.spectrum.pix[k]

\* C22's case: a horizontal-mode call on a plane of 2 rows and 4 columns
\* whose centre column held other values than 1 and whose centre row holds a
\* value other than 0 after the call.
C22_Witness ==
    /\ stripeCall # <<>>
    /\ stripeCall[1].horizontal
    /\ stripeCall[1].yx_slice.ny = 2 /\ stripeCall[1].yx_slice.nx = 4
    /\ stripeCall[1].spectrum.pix[<<0, 2>>] # Complex(1, 0)
    /\ stripeCall[1].spectrum.pix[<<1, 2>>] # Complex(1, 0)
    /\ stripeCall[1].img_f.pix[<<0, 2>>] = Complex(1, 0)
    /\ stripeCall[1].img_f.pix[<<1, 2>>] = Complex(1, 0)
    /\ stripeCall[1].img_f.pix[<<1, 1>>] # Complex(0, 0)
    /\ stripeCall[1].img_f.pix[<<1, 1>>] = stripeCall[1].spectrum.pix[<<1, 1>>]

\* The sum of a plane's values times scale, the values being fractions whose
\* denominators divide scale.
ScaledSum(plane, scale) ==
    SumOver([c \in DOMAIN plane.pix |->
                plane.pix[c].num * (scale \div plane.pix[c].den)],
            DOMAIN plane.pix)

\* C24: the plane filter_stripes returns has the mean of the plane it was
\* given.
C24_MeanPreserved ==
    stripeCall # <<>> =>
        LET call == stripeCall[1]
            n == call.yx_slice.ny * call.yx_slice.nx
        IN ScaledSum(call.returned, n * n)
              = n * n * SumOver(call.yx_slice.pix, DOMAIN call.yx_slice.pix)

\* C24's case: a call that changed the plane: rows of unequal brightness,
\* filtered in horizontal mode.
C24_Witness ==
    /\ stripeCall # <<>>
    /\ stripeCall[1].horizontal
    /\ stripeCall[1].yx_slice.ny = 4 /\ stripeCall[1].yx_slice.nx = 2
    /\ stripeCall[1].yx_slice.pix[<<1, 0>>] > stripeCall[1].yx_slice.pix[<<0, 0>>]
    /\ \E c \in DOMAIN stripeCall[1].returned.pix :
          stripeCall[1].returned.pix[c] # Ratio(stripeCall[1].yx_slice.pix[c], 1)
    /\ ScaledSum(stripeCall[1].returned, 64)
          = 64 * SumOver(stripeCall[1].yx_slice.pix, DOMAIN stripeCall[1].yx_slice.pix)

\* What the script is to leave in the output file for plane p of the input.
FilteredPlane(plane, ty) ==
    StorePlane(FilterStripes(WholeValues(plane), TRUE).returned, ty)

\* C23: the script filters every plane exactly once, in order; the plane it
\* stores at p is the filtered original plane p and nothing else; the planes
\* are written to the copy at the tagged path, and the input file is never
\* modified.
C23_EveryPlaneFilteredOnce ==
    /\ [](stripePc \in {"loop", "done"} =>
            LET source == fileSystem[inputPath[1]]
                copy == fileSystem[outputPath[1]]
            IN /\ outputPath[1] = addTag(inputPath[1], "FFS")
               /\ outputPath[1] # inputPath[1]
               /\ \A k \in 1 .. Len(filteredPlanes) : filteredPlanes[k] = k - 1
               /\ stripePc = "done" => Len(filteredPlanes) = Len(source.planes)
               /\ Len(copy.planes) = Len(source.planes)
               /\ \A p \in 1 .. Len(source.planes) :
                     copy.planes[p] =
                         IF p <= Len(filteredPlanes)
                         THEN FilteredPlane(source.planes[p], source.dtype)
                         ELSE source.planes[p])
    /\ [][(inputPath' # <<>> /\ inputPath'[1] \in DOMAIN fileSystem) =>
             fileSystem'[inputPath'[1]] = fileSystem[inputPath'[1]]]_vars

\* C23's case: the script has run to its end over a stack of several planes
\* of 16-bit integers with uneven rows, replacing the file an earlier run had
\* left, and every plane of the copy differs from the input's.
C23_Witness ==
    /\ stripePc = "done"
    /\ inputPath = <<StackPath>>
    /\ Len(fileSystem[StackPath].planes) >= 2
    /\ fileSystem[StackPath].dtype = Int16Type
    /\ fileSystem[StackPath].planes[1].ny = 4
    /\ filteredPlanes = [k \in 1 .. Len(fileSystem[StackPath].planes) |-> k - 1]
    /\ \A p \in 1 .. Len(fileSystem[StackPath].planes) :
          fileSystem[outputPath[1]].planes[p] # fileSystem[StackPath].planes[p]

=============================================================================
